---- MODULE Spec2Model ----
(***************************************************************************)
(* A model of the roguelike-ecs runtime: the Component Store, the Entity   *)
(* Manager layered over it, the System Registry, and the turn pipeline     *)
(* (input, AI, movement, combat, cleanup, turn counter).                   *)
(*                                                                         *)
(* Python dictionaries are functions whose DOMAIN is the set of keys;      *)
(* Python sets are sets; Python lists are sequences.  An operation that    *)
(* raises leaves the object in the state it had when the exception left    *)
(* the method and is recorded in last.raised.                              *)
(***************************************************************************)
EXTENDS Integers, Sequences, FiniteSets, TLC

\* ------------------------------------------------------------------ bounds

\* create_entity is called at most this many times
MaxEntities == 2

\* the longest component-type list passed to a query
MaxQueryLen == 2

\* the most systems the registry holds at once
MaxSystems == 3

\* ids passed to the operations: every id create_entity can return, and one
\* more that is never created
IdArgs == 0..MaxEntities

\* component types held by the store in the ECS specifications
Kinds == {"Position", "Health"}

\* component instances of one type, told apart by identity
CompValues == {"v1", "v2"}

\* the component-type lists passed to a query
KindLists == UNION {[1..n -> Kinds] : n \in 0..MaxQueryLen}

\* Python's None
None == "None"

VARIABLES
    \* EntityManager
    next_entity_id,
    entities,
    entities_pending_deletion,
    \* ComponentStore
    component_stores,
    entity_components,
    \* the ids create_entity has returned, in order of return
    created_ids,
    \* the last call made: its name, its entity argument (or the id returned)
    \* and whether it raised
    last,
    \* SystemRegistry: _systems and _initialized
    systems,
    initialized,
    \* the systems whose update the last update_all called, in call order
    run_log,
    \* the registered systems in the order add_system was called
    add_order,
    \* the last call made on the registry: its name and its system argument
    last_reg,
    \* MovementSystem: _occupancy_map and _impassable_positions
    occupancy_map,
    impassable_positions,
    \* AISystem._path_cache
    path_cache,
    \* TurnSchedulerSystem: _turn_number and _game_state
    turn_number,
    game_state,
    \* InputSystem: action_taken and should_quit (current_action is never read)
    action_taken,
    should_quit,
    \* GameLoop.running
    running,
    \* where GameLoop.update stands, and the entities the loop of the system
    \* being updated has still to visit
    phase,
    todo,
    \* the try_move_entity call made by the last step, if it made one
    move_call,
    \* the listener calls CombatSystem made in the last step, in order
    events,
    \* whether the world was built with the entities on distinct tiles
    started_distinct,
    \* the last call made on the combat bench: its name, its arguments and the
    \* value it returned
    bench_call,
    \* for each entity, the calls the death listener has received for it
    death_count

ecsVars == <<next_entity_id, entities, entities_pending_deletion,
             component_stores, entity_components, created_ids, last>>

regVars == <<systems, initialized, run_log, add_order, last_reg>>

gameVars == <<occupancy_map, impassable_positions, path_cache, turn_number, game_state,
              action_taken, should_quit, running, phase, todo,
              move_call, events, started_distinct>>

benchVars == <<bench_call, death_count>>

vars == <<ecsVars, regVars, gameVars, benchVars>>

\* ------------------------------------------------------- dictionary helpers

EmptyDict == [x \in {} |-> None]

DictSet(d, key, val) == [x \in (DOMAIN d) \cup {key} |-> IF x = key THEN val ELSE d[x]]

DictDel(d, key) == [x \in (DOMAIN d) \ {key} |-> d[x]]

\* ------------------------------------------------------------ ComponentStore
\* A store is the pair of dictionaries of ComponentStore:
\*   stores : component type -> (entity id -> component)
\*   ecomps : entity id -> set of component types

Store(stores, ecomps) == [stores |-> stores, ecomps |-> ecomps]

CS_add_component(cs, e, k, v) ==
    LET s1 == IF k \notin DOMAIN cs.stores
              THEN DictSet(cs.stores, k, EmptyDict)
              ELSE cs.stores
        s2 == DictSet(s1, k, DictSet(s1[k], e, v))
        c1 == IF e \notin DOMAIN cs.ecomps
              THEN DictSet(cs.ecomps, e, {})
              ELSE cs.ecomps
        c2 == DictSet(c1, e, c1[e] \cup {k})
    IN  Store(s2, c2)

\* a remove_component that keeps the entity's type set when it becomes empty
CS_remove_component_KeepsEmpty(cs, e, k) ==
    IF k \in DOMAIN cs.stores /\ e \in DOMAIN cs.stores[k]
    THEN LET s1 == DictSet(cs.stores, k, DictDel(cs.stores[k], e))
             c1 == IF e \in DOMAIN cs.ecomps
                   THEN DictSet(cs.ecomps, e, cs.ecomps[e] \ {k})
                   ELSE cs.ecomps
         IN  Store(s1, c1)
    ELSE cs

CS_remove_component(cs, e, k) ==
    IF k \in DOMAIN cs.stores /\ e \in DOMAIN cs.stores[k]
    THEN LET s1 == DictSet(cs.stores, k, DictDel(cs.stores[k], e))
             c1 == IF e \in DOMAIN cs.ecomps
                   THEN LET d == DictSet(cs.ecomps, e, cs.ecomps[e] \ {k})
                        IN  IF d[e] = {} THEN DictDel(d, e) ELSE d
                   ELSE cs.ecomps
         IN  Store(s1, c1)
    ELSE cs

\* the loop of remove_all_components over list(self._entity_components[e]);
\* the store it leaves does not depend on the order of the list
RECURSIVE CS_remove_each(_, _, _)
CS_remove_each(cs, e, types) ==
    IF types = {} THEN cs
    ELSE LET k == CHOOSE x \in types : TRUE
         IN  CS_remove_each(CS_remove_component(cs, e, k), e, types \ {k})

\* remove_all_components: [cs |-> the store left, raised |-> whether the final
\* `del self._entity_components[entity_id]` raised KeyError]
CS_remove_all_components(cs, e) ==
    IF e \in DOMAIN cs.ecomps
    THEN LET after == CS_remove_each(cs, e, cs.ecomps[e])
         IN  IF e \in DOMAIN after.ecomps
             THEN [cs |-> Store(after.stores, DictDel(after.ecomps, e)), raised |-> FALSE]
             ELSE [cs |-> after, raised |-> TRUE]
    ELSE [cs |-> cs, raised |-> FALSE]

CS_has_component(cs, e, k) ==
    k \in DOMAIN cs.stores /\ e \in DOMAIN cs.stores[k]

CS_get_component(cs, e, k) ==
    IF CS_has_component(cs, e, k) THEN cs.stores[k][e] ELSE None

CS_get_all_components(cs, e) ==
    IF e \notin DOMAIN cs.ecomps
    THEN EmptyDict
    ELSE [k \in cs.ecomps[e] |-> cs.stores[k][e]]

\* a filtering loop that joins the per-type key sets instead of intersecting
RECURSIVE CS_query_rest_Union(_, _, _)
CS_query_rest_Union(cs, result, rest) ==
    IF rest = <<>> THEN result
    ELSE IF Head(rest) \notin DOMAIN cs.stores THEN {}
    ELSE CS_query_rest_Union(cs, result \cup DOMAIN cs.stores[Head(rest)], Tail(rest))

\* the filtering loop of get_entities_with_components over component_types[1:]
RECURSIVE CS_query_rest(_, _, _)
CS_query_rest(cs, result, rest) ==
    IF rest = <<>> THEN result
    ELSE IF Head(rest) \notin DOMAIN cs.stores THEN {}
    ELSE LET r == result \cap DOMAIN cs.stores[Head(rest)]
         IN  IF r = {} THEN {} ELSE CS_query_rest(cs, r, Tail(rest))

CS_get_entities_with_components(cs, types) ==
    IF types = <<>> THEN {}
    ELSE IF Head(types) \notin DOMAIN cs.stores THEN {}
    ELSE CS_query_rest(cs, DOMAIN cs.stores[Head(types)], Tail(types))

\* the store held in the variables
TheStore == Store(component_stores, entity_components)

\* ------------------------------------------------------------- EntityManager
\* An entity manager is the record of EntityManager's fields:
\*   next : _next_entity_id, entities : _entities,
\*   pending : _entities_pending_deletion, cs : _component_store

TheEM == [next |-> next_entity_id, entities |-> entities,
          pending |-> entities_pending_deletion, cs |-> TheStore]

\* a create_entity that hands out the lowest id not in the live set
EM_create_entity_Reuse(em) ==
    LET free == CHOOSE i \in 0..em.next : i \notin em.entities /\ \A j \in 0..(i - 1) : j \in em.entities
    IN  [em  |-> [em EXCEPT !.next = @ + 1, !.entities = @ \cup {free}],
         ret |-> free]

\* create_entity: [em |-> the manager left, ret |-> the id returned]
EM_create_entity(em) ==
    [em  |-> [em EXCEPT !.next = @ + 1, !.entities = @ \cup {em.next}],
     ret |-> em.next]

\* a destroy_entity that frees the entity at once
EM_destroy_entity_Immediate(em, id) ==
    IF id \in em.entities
    THEN [em EXCEPT !.entities = @ \ {id},
                    !.cs = CS_remove_each(em.cs, id, {k \in Kinds : CS_has_component(em.cs, id, k)})]
    ELSE em

EM_destroy_entity(em, id) ==
    IF id \in em.entities
    THEN [em EXCEPT !.pending = @ \cup {id}]
    ELSE em

\* the loop of cleanup_entities over the pending set, taken in the order
\* `order`; it ends early when remove_all_components raises
RECURSIVE EM_cleanup_loop(_, _)
EM_cleanup_loop(em, order) ==
    IF order = <<>> THEN [em |-> em, raised |-> FALSE]
    ELSE LET id == Head(order)
         IN  IF id \in em.entities
             THEN LET r   == CS_remove_all_components(em.cs, id)
                      em1 == [em EXCEPT !.entities = @ \ {id}, !.cs = r.cs]
                  IN  IF r.raised
                      THEN [em |-> em1, raised |-> TRUE]
                      ELSE EM_cleanup_loop(em1, Tail(order))
             ELSE EM_cleanup_loop(em, Tail(order))

\* cleanup_entities: the pending set is cleared only when the loop ends normally
EM_cleanup_entities(em, order) ==
    LET r == EM_cleanup_loop(em, order)
    IN  IF r.raised
        THEN r
        ELSE [em |-> [r.em EXCEPT !.pending = {}], raised |-> FALSE]

\* an add_component that does not look at the live set
EM_add_component_Unguarded(em, id, k, v) ==
    [em EXCEPT !.cs = CS_add_component(em.cs, id, k, v)]

EM_add_component(em, id, k, v) ==
    IF id \in em.entities
    THEN [em EXCEPT !.cs = CS_add_component(em.cs, id, k, v)]
    ELSE em

EM_remove_component(em, id, k) ==
    IF id \in em.entities
    THEN [em EXCEPT !.cs = CS_remove_component(em.cs, id, k)]
    ELSE em

EM_has_component(em, id, k) ==
    IF id \in em.entities THEN CS_has_component(em.cs, id, k) ELSE FALSE

EM_get_component(em, id, k) ==
    IF id \in em.entities THEN CS_get_component(em.cs, id, k) ELSE None

EM_get_all_components(em, id) ==
    IF id \in em.entities THEN CS_get_all_components(em.cs, id) ELSE EmptyDict

EM_get_entities_with_components(em, types) ==
    CS_get_entities_with_components(em.cs, types)

EM_entity_exists(em, id) == id \in em.entities

\* the orders in which Python may iterate over the set S
RECURSIVE Orders(_)
Orders(S) ==
    IF S = {} THEN {<<>>}
    ELSE UNION {{<<x>> \o o : o \in Orders(S \ {x})} : x \in S}

\* --------------------------------------------------------- the ECS actions

Call(op, id, marked, raised) ==
    [op |-> op, id |-> id, marked |-> marked, raised |-> raised]

SetStore(cs) ==
    /\ component_stores' = cs.stores
    /\ entity_components' = cs.ecomps

SetEM(em) ==
    /\ next_entity_id' = em.next
    /\ entities' = em.entities
    /\ entities_pending_deletion' = em.pending
    /\ SetStore(em.cs)

ECSInit ==
    /\ next_entity_id = 0
    /\ entities = {}
    /\ entities_pending_deletion = {}
    /\ component_stores = EmptyDict
    /\ entity_components = EmptyDict
    /\ created_ids = <<>>
    /\ last = Call("init", -1, {}, FALSE)

CreateEntity ==
    /\ next_entity_id < MaxEntities
    /\ LET r == EM_create_entity(TheEM)
       IN  /\ SetEM(r.em)
           /\ created_ids' = Append(created_ids, r.ret)
           /\ last' = Call("create_entity", r.ret, {}, FALSE)
           /\ UNCHANGED <<regVars, gameVars, benchVars>>

DestroyEntity ==
    \E id \in IdArgs :
        /\ SetEM(EM_destroy_entity(TheEM, id))
        /\ last' = Call("destroy_entity", id, {}, FALSE)
        /\ UNCHANGED <<created_ids, regVars, gameVars, benchVars>>

CleanupEntities ==
    \E order \in Orders(entities_pending_deletion) :
        LET r == EM_cleanup_entities(TheEM, order)
        IN  /\ SetEM(r.em)
            /\ last' = Call("cleanup_entities", -1, entities_pending_deletion, r.raised)
            /\ UNCHANGED <<created_ids, regVars, gameVars, benchVars>>

AddComponent ==
    \E id \in IdArgs, k \in Kinds, v \in CompValues :
        /\ SetEM(EM_add_component(TheEM, id, k, v))
        /\ last' = Call("add_component", id, {}, FALSE)
        /\ UNCHANGED <<created_ids, regVars, gameVars, benchVars>>

RemoveComponent ==
    \E id \in IdArgs, k \in Kinds :
        /\ SetEM(EM_remove_component(TheEM, id, k))
        /\ last' = Call("remove_component", id, {}, FALSE)
        /\ UNCHANGED <<created_ids, regVars, gameVars, benchVars>>

\* the operations of a ComponentStore used on its own
StoreAdd ==
    \E e \in IdArgs, k \in Kinds, v \in CompValues :
        /\ SetStore(CS_add_component(TheStore, e, k, v))
        /\ last' = Call("cs_add_component", e, {}, FALSE)
        /\ UNCHANGED <<next_entity_id, entities, entities_pending_deletion, created_ids, regVars, gameVars, benchVars>>

StoreRemove ==
    \E e \in IdArgs, k \in Kinds :
        /\ SetStore(CS_remove_component(TheStore, e, k))
        /\ last' = Call("cs_remove_component", e, {}, FALSE)
        /\ UNCHANGED <<next_entity_id, entities, entities_pending_deletion, created_ids, regVars, gameVars, benchVars>>

StoreRemoveAll ==
    \E e \in IdArgs :
        LET r == CS_remove_all_components(TheStore, e)
        IN  /\ SetStore(r.cs)
            /\ last' = Call("cs_remove_all_components", e, {}, r.raised)
            /\ UNCHANGED <<next_entity_id, entities, entities_pending_deletion, created_ids, regVars, gameVars, benchVars>>

EMNext ==
    \/ CreateEntity
    \/ DestroyEntity
    \/ CleanupEntities
    \/ AddComponent
    \/ RemoveComponent

StoreNext ==
    \/ StoreAdd
    \/ StoreRemove
    \/ StoreRemoveAll

\* ------------------------------------------------------------ SystemRegistry

\* the systems GameLoop registers, and the priority each sets in __init__
SystemNames == {"InputSystem", "TurnSchedulerSystem", "AISystem", "MovementSystem"}

Priority(sys) ==
    CASE sys = "InputSystem"         -> -100
      [] sys = "TurnSchedulerSystem" -> 0
      [] sys = "AISystem"            -> -10
      [] sys = "MovementSystem"      -> 0

\* list.remove: the list without the first element equal to x
RECURSIVE RemoveFirst(_, _)
RemoveFirst(seq, x) ==
    IF seq = <<>> THEN <<>>
    ELSE IF Head(seq) = x THEN Tail(seq)
    ELSE <<Head(seq)>> \o RemoveFirst(Tail(seq), x)

InSeq(seq, x) == \E i \in DOMAIN seq : seq[i] = x

\* an insertion that puts x before the elements of equal priority
RECURSIVE InsertByPriority_Unstable(_, _)
InsertByPriority_Unstable(sorted, x) ==
    IF sorted = <<>> THEN <<x>>
    ELSE IF Priority(Head(sorted)) < Priority(x)
         THEN <<Head(sorted)>> \o InsertByPriority_Unstable(Tail(sorted), x)
         ELSE <<x>> \o sorted

\* x put into a list sorted by priority, after the elements of equal priority
RECURSIVE InsertByPriority(_, _)
InsertByPriority(sorted, x) ==
    IF sorted = <<>> THEN <<x>>
    ELSE IF Priority(Head(sorted)) <= Priority(x)
         THEN <<Head(sorted)>> \o InsertByPriority(Tail(sorted), x)
         ELSE <<x>> \o sorted

\* list.sort(key=lambda s: s.priority): a stable sort
RECURSIVE SortByPriority(_)
SortByPriority(seq) ==
    IF seq = <<>> THEN <<>>
    ELSE InsertByPriority(SortByPriority(SubSeq(seq, 1, Len(seq) - 1)), seq[Len(seq)])

\* A registry is the record [systems, initialized] of SystemRegistry's fields

REG_add_system(reg, sys) ==
    [systems |-> Append(reg.systems, sys), initialized |-> FALSE]

\* a remove_system that leaves _initialized as it is
REG_remove_system_KeepInit(reg, sys) ==
    IF InSeq(reg.systems, sys)
    THEN [reg EXCEPT !.systems = RemoveFirst(@, sys)]
    ELSE reg

REG_remove_system(reg, sys) ==
    IF InSeq(reg.systems, sys)
    THEN [systems |-> RemoveFirst(reg.systems, sys), initialized |-> FALSE]
    ELSE reg

REG_initialize(reg) ==
    [systems |-> SortByPriority(reg.systems), initialized |-> TRUE]

\* update_all: [reg |-> the registry left, ran |-> the systems updated, in order]
REG_update_all(reg) ==
    LET r == IF ~reg.initialized THEN REG_initialize(reg) ELSE reg
    IN  [reg |-> r, ran |-> r.systems]

TheRegistry == [systems |-> systems, initialized |-> initialized]

SetRegistry(reg) ==
    /\ systems' = reg.systems
    /\ initialized' = reg.initialized

RegCall(op, sys) == [op |-> op, system |-> sys]

RegInit ==
    /\ systems = <<>>
    /\ initialized = FALSE
    /\ run_log = <<>>
    /\ add_order = <<>>
    /\ last_reg = RegCall("init", None)

AddSystem ==
    \E sys \in SystemNames :
        /\ Len(systems) < MaxSystems
        /\ SetRegistry(REG_add_system(TheRegistry, sys))
        /\ add_order' = Append(add_order, sys)
        /\ last_reg' = RegCall("add_system", sys)
        /\ UNCHANGED <<run_log, ecsVars, gameVars, benchVars>>

RemoveSystem ==
    \E sys \in SystemNames :
        /\ SetRegistry(REG_remove_system(TheRegistry, sys))
        /\ add_order' = RemoveFirst(add_order, sys)
        /\ last_reg' = RegCall("remove_system", sys)
        /\ UNCHANGED <<run_log, ecsVars, gameVars, benchVars>>

Initialize ==
    /\ SetRegistry(REG_initialize(TheRegistry))
    /\ last_reg' = RegCall("initialize", None)
    /\ UNCHANGED <<run_log, add_order, ecsVars, gameVars, benchVars>>

UpdateAll ==
    LET r == REG_update_all(TheRegistry)
    IN  /\ SetRegistry(r.reg)
        /\ run_log' = r.ran
        /\ last_reg' = RegCall("update_all", None)
        /\ UNCHANGED <<add_order, ecsVars, gameVars, benchVars>>

RegNext ==
    \/ AddSystem
    \/ RemoveSystem
    \/ Initialize
    \/ UpdateAll

\* ------------------------------------------------------------ the game world
\* The turn pipeline runs on the Entity Manager above.  A component is the
\* value of its fields:
\*   Position    <<x, y>>
\*   Health      [current, max, is_dead]
\*   CombatStats [attack, defense, power]
\*   AIIntent    [action_type, target_entity, target_position]
\*   TurnState   [can_act]
\*   PlayerTag   [tag]
\* Renderable, the message queue and the debug output are presentation only
\* and are left out.

\* AIIntent.target_entity = None
NoEntity == -1

\* AIIntent.target_position = None
NoPosition == <<>>

\* the map of the scenario: World(width, height)
Room == [width |-> 4, height |-> 4]

\* World.generate_map: the border; the number of random walls,
\* (width * height) // 20, is zero on this map
Walls ==
    {<<x, y>> : x \in 0..(Room.width - 1), y \in {0, Room.height - 1}}
        \cup {<<x, y>> : x \in {0, Room.width - 1}, y \in 0..(Room.height - 1)}

\* World.get_random_floor_position: the tiles it can return
FloorTiles ==
    {<<x, y>> : x \in 1..(Room.width - 2), y \in 1..(Room.height - 2)} \ Walls

\* the calls of create_enemy made by World.populate_enemies
EnemySlots == 1..2

\* World.create_enemy: the archetypes populate_enemies draws from
EnemyTypes == {"goblin", "orc", "troll"}

Health(current, max) == [current |-> current, max |-> max, is_dead |-> FALSE]

CombatStats(attack, defense, power) == [attack |-> attack, defense |-> defense, power |-> power]

\* AIIntent.__init__
NewIntent == [action_type |-> "NONE", target_entity |-> NoEntity, target_position |-> NoPosition]

EnemyHealth(type) ==
    CASE type = "goblin" -> Health(10, 10)
      [] type = "orc"    -> Health(15, 15)
      [] type = "troll"  -> Health(20, 20)

EnemyStats(type) ==
    CASE type = "goblin" -> CombatStats(3, 1, 3)
      [] type = "orc"    -> CombatStats(4, 2, 4)
      [] type = "troll"  -> CombatStats(5, 3, 6)

PlayerHealth == Health(30, 30)

PlayerStats == CombatStats(5, 2, 5)

\* a component object changed in place
SetComponent(em, e, k, v) == [em EXCEPT !.cs.stores[k][e] = v]

\* the component of kind k of entity e, which holds one
Comp(em, e, k) == em.cs.stores[k][e]

\* ------------------------------------------------------------ MovementSystem
\* A movement system is the record [occ, impassable] of MovementSystem's
\* _occupancy_map and _impassable_positions.

\* an _is_valid_move that does not look at the impassable positions
MS_is_valid_move_NoWalls(ms, e, tile) ==
    ~(tile \in DOMAIN ms.occ /\ ms.occ[tile] # e)

\* an _is_valid_move that does not look at the occupancy map
MS_is_valid_move_NoOccupancy(ms, e, tile) ==
    tile \notin ms.impassable

MS_is_valid_move(ms, e, tile) ==
    IF tile \in ms.impassable THEN FALSE
    ELSE IF tile \in DOMAIN ms.occ /\ ms.occ[tile] # e THEN FALSE
    ELSE TRUE

\* try_move_entity: [em, ms |-> what it leaves, ok |-> the value returned]
MS_try_move_entity(em, ms, e, dx, dy) ==
    IF ~EM_has_component(em, e, "Position")
    THEN [em |-> em, ms |-> ms, ok |-> FALSE]
    ELSE LET old == Comp(em, e, "Position")
             new == <<old[1] + dx, old[2] + dy>>
         IN  IF ~MS_is_valid_move(ms, e, new)
             THEN [em |-> em, ms |-> ms, ok |-> FALSE]
             ELSE LET occ1 == IF old \in DOMAIN ms.occ /\ ms.occ[old] = e
                              THEN DictDel(ms.occ, old)
                              ELSE ms.occ
                      occ2 == DictSet(occ1, new, e)
                  IN  [em |-> SetComponent(em, e, "Position", new),
                       ms |-> [ms EXCEPT !.occ = occ2],
                       ok |-> TRUE]

\* the loop of _rebuild_occupancy_map over the entities in the order `order`
RECURSIVE MS_rebuild_loop(_, _, _)
MS_rebuild_loop(em, occ, order) ==
    IF order = <<>> THEN occ
    ELSE MS_rebuild_loop(em, DictSet(occ, Comp(em, Head(order), "Position"), Head(order)),
                         Tail(order))

MS_rebuild_occupancy_map(em, ms, order) ==
    [ms EXCEPT !.occ = MS_rebuild_loop(em, EmptyDict, order)]

MS_get_entity_at_position(ms, tile) ==
    IF tile \in DOMAIN ms.occ THEN ms.occ[tile] ELSE NoEntity


\* a loop body that keeps the intent of a move that failed
MS_update_entity_KeepsFailed(em, ms, e) ==
    LET intent == Comp(em, e, "AIIntent")
    IN  IF intent.action_type = "MOVE" /\ intent.target_position # NoPosition
        THEN LET position == Comp(em, e, "Position")
                 target   == intent.target_position
                 dx == IF target[1] > position[1] THEN 1
                       ELSE IF target[1] < position[1] THEN -1 ELSE 0
                 dy == IF target[2] > position[2] THEN 1
                       ELSE IF target[2] < position[2] THEN -1 ELSE 0
                 r  == MS_try_move_entity(em, ms, e, dx, dy)
             IN  [em |-> IF r.ok THEN SetComponent(r.em, e, "AIIntent", NewIntent) ELSE r.em,
                  ms |-> r.ms, called |-> TRUE, dx |-> dx, dy |-> dy, ok |-> r.ok]
        ELSE [em |-> em, ms |-> ms, called |-> FALSE, dx |-> 0, dy |-> 0, ok |-> FALSE]

\* the per-entity body of MovementSystem.update's loop:
\* [em, ms |-> what it leaves, called |-> whether try_move_entity was called,
\*  dx, dy |-> its arguments, ok |-> its result]
MS_update_entity(em, ms, e) ==
    LET intent == Comp(em, e, "AIIntent")
    IN  IF intent.action_type = "MOVE" /\ intent.target_position # NoPosition
        THEN LET position == Comp(em, e, "Position")
                 target   == intent.target_position
                 dx == IF target[1] > position[1] THEN 1
                       ELSE IF target[1] < position[1] THEN -1 ELSE 0
                 dy == IF target[2] > position[2] THEN 1
                       ELSE IF target[2] < position[2] THEN -1 ELSE 0
                 r  == MS_try_move_entity(em, ms, e, dx, dy)
             IN  [em |-> SetComponent(r.em, e, "AIIntent", NewIntent),
                  ms |-> r.ms, called |-> TRUE, dx |-> dx, dy |-> dy, ok |-> r.ok]
        ELSE [em |-> em, ms |-> ms, called |-> FALSE, dx |-> 0, dy |-> 0, ok |-> FALSE]

\* ------------------------------------------------------------------ AISystem

\* AISystem.__init__: detection_range
DetectionRange == 8

\* AISystem._find_path: max_steps
MaxSteps == 20

Abs(n) == IF n < 0 THEN -n ELSE n

AI_manhattan_distance(p, q) == Abs(p[1] - q[1]) + Abs(p[2] - q[2])

Toward(from, to) == IF from < to THEN from + 1 ELSE IF from > to THEN from - 1 ELSE from

\* a loop iteration that keeps both changed coordinates
AI_next_steps_Diagonal(cur, goal) ==
    {<<Toward(cur[1], goal[1]), Toward(cur[2], goal[2])>>}

\* one iteration of _find_path's loop: the positions it can append after cur
\* (two when both axes differ, one for each outcome of random.random() < 0.5)
AI_next_steps(cur, goal) ==
    LET next_x == Toward(cur[1], goal[1])
        next_y == Toward(cur[2], goal[2])
    IN  IF next_x # cur[1] /\ next_y # cur[2]
        THEN {<<next_x, cur[2]>>, <<cur[1], next_y>>}
        ELSE {<<next_x, next_y>>}

\* the paths _find_path's loop can build from `path` in n more iterations
RECURSIVE AI_extend_path(_, _, _)
AI_extend_path(path, goal, n) ==
    IF n = 0 \/ path[Len(path)] = goal
    THEN {path}
    ELSE UNION {AI_extend_path(Append(path, nxt), goal, n - 1) :
                    nxt \in AI_next_steps(path[Len(path)], goal)}

\* a _find_path whose loop runs once more
AI_find_path_ExtraStep(cache, start, goal, max_steps) ==
    LET key == <<start, goal>>
    IN  IF key \in DOMAIN cache
        THEN {[path |-> cache[key], cache |-> cache]}
        ELSE {[path |-> p, cache |-> DictSet(cache, key, p)] :
                  p \in AI_extend_path(<<start>>, goal, max_steps + 1)}

\* a _find_path that builds a new path on every call
AI_find_path_NoCache(cache, start, goal, max_steps) ==
    {[path |-> p, cache |-> DictSet(cache, <<start, goal>>, p)] :
         p \in AI_extend_path(<<start>>, goal, max_steps)}

\* _find_path: the set of [path, cache] it can return and leave
AI_find_path(cache, start, goal, max_steps) ==
    LET key == <<start, goal>>
    IN  IF key \in DOMAIN cache
        THEN {[path |-> cache[key], cache |-> cache]}
        ELSE {[path |-> p, cache |-> DictSet(cache, key, p)] :
                  p \in AI_extend_path(<<start>>, goal, max_steps)}

AI_set_move_intent(tile) ==
    [action_type |-> "MOVE", target_entity |-> NoEntity, target_position |-> tile]

AI_set_attack_intent(target) ==
    [action_type |-> "ATTACK", target_entity |-> target, target_position |-> NoPosition]

AI_set_wait_intent ==
    [action_type |-> "WAIT", target_entity |-> NoEntity, target_position |-> NoPosition]

\* _decide_attack
AI_decide_attack(em, cache, e, player_id) ==
    IF EM_has_component(em, e, "CombatStats")
    THEN {[em |-> SetComponent(em, e, "AIIntent", AI_set_attack_intent(player_id)), cache |-> cache]}
    ELSE {[em |-> em, cache |-> cache]}

\* _decide_chase
AI_decide_chase(em, cache, e, player_id) ==
    LET position   == Comp(em, e, "Position")
        player_pos == Comp(em, player_id, "Position")
    IN  {[em |-> SetComponent(em, e, "AIIntent",
                    IF Len(r.path) > 1
                    THEN AI_set_move_intent(r.path[2])
                    ELSE AI_set_move_intent(<<Toward(position[1], player_pos[1]),
                                              Toward(position[2], player_pos[2])>>)),
          cache |-> r.cache] :
            r \in AI_find_path(cache, position, player_pos, MaxSteps)}

\* a wander decision that keeps a diagonal delta
AI_decide_wander_Diagonal(em, cache, e) ==
    LET position == Comp(em, e, "Position")
    IN  {[em |-> SetComponent(em, e, "AIIntent",
                    AI_set_move_intent(<<position[1] + d[1], position[2] + d[2]>>)),
          cache |-> cache] : d \in {-1, 0, 1} \X {-1, 0, 1}}
        \cup {[em |-> SetComponent(em, e, "AIIntent", AI_set_wait_intent), cache |-> cache]}

\* _decide_wander: one outcome for each value of the random draws
AI_decide_wander(em, cache, e) ==
    LET position == Comp(em, e, "Position")
        deltas   == {IF d[1] # 0 /\ d[2] # 0
                     THEN (IF coin THEN <<0, d[2]>> ELSE <<d[1], 0>>)
                     ELSE d :
                        d \in {-1, 0, 1} \X {-1, 0, 1}, coin \in BOOLEAN}
    IN  {[em |-> SetComponent(em, e, "AIIntent",
                    AI_set_move_intent(<<position[1] + d[1], position[2] + d[2]>>)),
          cache |-> cache] : d \in deltas}
        \cup {[em |-> SetComponent(em, e, "AIIntent", AI_set_wait_intent), cache |-> cache]}

\* an update loop body that decides for dead entities too
AI_update_entity_DecidesForDead(em, cache, e, player_id) ==
    LET distance == AI_manhattan_distance(Comp(em, e, "Position"),
                                          Comp(em, player_id, "Position"))
    IN  IF distance <= 1 THEN AI_decide_attack(em, cache, e, player_id)
        ELSE IF distance <= DetectionRange THEN AI_decide_chase(em, cache, e, player_id)
        ELSE AI_decide_wander(em, cache, e)

\* an update loop body whose detection range excludes its boundary
AI_update_entity_ExclusiveRange(em, cache, e, player_id) ==
    IF ~EM_has_component(em, e, "Health") \/ Comp(em, e, "Health").is_dead
    THEN {[em |-> em, cache |-> cache]}
    ELSE LET distance == AI_manhattan_distance(Comp(em, e, "Position"),
                                               Comp(em, player_id, "Position"))
         IN  IF distance <= 1 THEN AI_decide_attack(em, cache, e, player_id)
             ELSE IF distance < DetectionRange THEN AI_decide_chase(em, cache, e, player_id)
             ELSE AI_decide_wander(em, cache, e)

\* the per-entity body of AISystem.update's loop: the set of [em, cache] it
\* can leave
AI_update_entity(em, cache, e, player_id) ==
    IF ~EM_has_component(em, e, "Health") \/ Comp(em, e, "Health").is_dead
    THEN {[em |-> em, cache |-> cache]}
    ELSE LET distance == AI_manhattan_distance(Comp(em, e, "Position"),
                                               Comp(em, player_id, "Position"))
         IN  IF distance <= 1 THEN AI_decide_attack(em, cache, e, player_id)
             ELSE IF distance <= DetectionRange THEN AI_decide_chase(em, cache, e, player_id)
             ELSE AI_decide_wander(em, cache, e)

\* -------------------------------------------------------------- CombatSystem

Max(a, b) == IF a >= b THEN a ELSE b

Min(a, b) == IF a <= b THEN a ELSE b

\* a _calculate_hit_chance without the lower clamp
CB_calculate_hit_chance_NoFloor(attack, defense) ==
    Min(95, 60 + attack * 2 - defense * 2)

\* _calculate_hit_chance, in hundredths
CB_calculate_hit_chance(attack, defense) ==
    Max(10, Min(95, 60 + attack * 2 - defense * 2))

\* a calculate_damage without the minimum of 1
ST_calculate_damage_NoMinimum(stats, target_defense) ==
    Max(0, stats.power - (target_defense \div 2))

\* CombatStats.calculate_damage; // is floor division
ST_calculate_damage(stats, target_defense) ==
    Max(1, Max(0, stats.power - (target_defense \div 2)))

\* a take_damage that reports a kill whenever the health is at zero
H_take_damage_KillsAgain(health, amount) ==
    LET current == Max(0, health.current - amount)
    IN  IF current <= 0
        THEN [health |-> [health EXCEPT !.current = current, !.is_dead = TRUE], killed |-> TRUE]
        ELSE [health |-> [health EXCEPT !.current = current], killed |-> FALSE]

\* a heal that does not stop at max
H_heal_Unclamped(health, amount) ==
    IF health.is_dead THEN health
    ELSE [health EXCEPT !.current = @ + amount]

\* a heal that does not look at is_dead
H_heal_Revives(health, amount) ==
    [health EXCEPT !.current = Min(health.max, @ + amount)]

\* Health.heal: the component left
H_heal(health, amount) ==
    IF health.is_dead THEN health
    ELSE [health EXCEPT !.current = Min(health.max, @ + amount)]

\* Health.take_damage: [health |-> the component left, killed |-> the result]
H_take_damage(health, amount) ==
    LET current == Max(0, health.current - amount)
    IN  IF current <= 0 /\ ~health.is_dead
        THEN [health |-> [health EXCEPT !.current = current, !.is_dead = TRUE], killed |-> TRUE]
        ELSE [health |-> [health EXCEPT !.current = current], killed |-> FALSE]

\* the values of random.random(), in hundredths, the model draws
Rolls == {0, 99}

Event(kind, attacker, defender, damage) ==
    [kind |-> kind, attacker |-> attacker, defender |-> defender, damage |-> damage]

\* a death listener that leaves the game state alone
GL_handle_entity_death_Ignored(em, state, victim) == state

\* GameLoop._handle_entity_death, the death listener GameLoop registers
GL_handle_entity_death(em, state, victim) ==
    IF EM_has_component(em, victim, "PlayerTag") THEN "GAME_OVER" ELSE state

\* a perform_attack that has the entity it kills destroyed
CB_perform_attack_DestroysKilled(em, state, attacker, defender, roll) ==
    IF ~(EM_entity_exists(em, attacker) /\ EM_entity_exists(em, defender))
    THEN [em |-> em, state |-> state, hit |-> FALSE, events |-> <<>>]
    ELSE IF ~(/\ EM_has_component(em, attacker, "CombatStats")
              /\ EM_has_component(em, defender, "CombatStats")
              /\ EM_has_component(em, defender, "Health"))
    THEN [em |-> em, state |-> state, hit |-> FALSE, events |-> <<>>]
    ELSE LET attacker_stats == Comp(em, attacker, "CombatStats")
             defender_stats == Comp(em, defender, "CombatStats")
             hit == roll <= CB_calculate_hit_chance(attacker_stats.attack, defender_stats.defense)
         IN  IF hit
             THEN LET damage == ST_calculate_damage(attacker_stats, defender_stats.defense)
                      r      == H_take_damage(Comp(em, defender, "Health"), damage)
                      em1    == SetComponent(em, defender, "Health", r.health)
                  IN  [em     |-> IF r.killed THEN EM_destroy_entity(em1, defender) ELSE em1,
                       state  |-> IF r.killed THEN GL_handle_entity_death(em1, state, defender)
                                  ELSE state,
                       hit    |-> TRUE,
                       events |-> <<Event("hit", attacker, defender, damage)>>
                                  \o (IF r.killed THEN <<Event("death", attacker, defender, 0)>>
                                      ELSE <<>>)]
             ELSE [em |-> em, state |-> state, hit |-> FALSE,
                   events |-> <<Event("miss", attacker, defender, 0)>>]

\* a perform_attack that misses when the roll equals the hit chance
CB_perform_attack_StrictRoll(em, state, attacker, defender, roll) ==
    IF ~(EM_entity_exists(em, attacker) /\ EM_entity_exists(em, defender))
    THEN [em |-> em, state |-> state, hit |-> FALSE, events |-> <<>>]
    ELSE IF ~(/\ EM_has_component(em, attacker, "CombatStats")
              /\ EM_has_component(em, defender, "CombatStats")
              /\ EM_has_component(em, defender, "Health"))
    THEN [em |-> em, state |-> state, hit |-> FALSE, events |-> <<>>]
    ELSE LET attacker_stats == Comp(em, attacker, "CombatStats")
             defender_stats == Comp(em, defender, "CombatStats")
             hit == roll < CB_calculate_hit_chance(attacker_stats.attack, defender_stats.defense)
         IN  IF hit
             THEN LET damage == ST_calculate_damage(attacker_stats, defender_stats.defense)
                      r      == H_take_damage(Comp(em, defender, "Health"), damage)
                      em1    == SetComponent(em, defender, "Health", r.health)
                  IN  [em     |-> em1,
                       state  |-> IF r.killed THEN GL_handle_entity_death(em1, state, defender)
                                  ELSE state,
                       hit    |-> TRUE,
                       events |-> <<Event("hit", attacker, defender, damage)>>
                                  \o (IF r.killed THEN <<Event("death", attacker, defender, 0)>>
                                      ELSE <<>>)]
             ELSE [em |-> em, state |-> state, hit |-> FALSE,
                   events |-> <<Event("miss", attacker, defender, 0)>>]

\* a perform_attack that reports a miss when a component is missing
CB_perform_attack_MissOnMissing(em, state, attacker, defender, roll) ==
    IF ~(EM_entity_exists(em, attacker) /\ EM_entity_exists(em, defender))
    THEN [em |-> em, state |-> state, hit |-> FALSE, events |-> <<>>]
    ELSE IF ~(/\ EM_has_component(em, attacker, "CombatStats")
              /\ EM_has_component(em, defender, "CombatStats")
              /\ EM_has_component(em, defender, "Health"))
    THEN [em |-> em, state |-> state, hit |-> FALSE,
          events |-> <<Event("miss", attacker, defender, 0)>>]
    ELSE LET attacker_stats == Comp(em, attacker, "CombatStats")
             defender_stats == Comp(em, defender, "CombatStats")
             hit == roll <= CB_calculate_hit_chance(attacker_stats.attack, defender_stats.defense)
         IN  IF hit
             THEN LET damage == ST_calculate_damage(attacker_stats, defender_stats.defense)
                      r      == H_take_damage(Comp(em, defender, "Health"), damage)
                      em1    == SetComponent(em, defender, "Health", r.health)
                  IN  [em     |-> em1,
                       state  |-> IF r.killed THEN GL_handle_entity_death(em1, state, defender)
                                  ELSE state,
                       hit    |-> TRUE,
                       events |-> <<Event("hit", attacker, defender, damage)>>
                                  \o (IF r.killed THEN <<Event("death", attacker, defender, 0)>>
                                      ELSE <<>>)]
             ELSE [em |-> em, state |-> state, hit |-> FALSE,
                   events |-> <<Event("miss", attacker, defender, 0)>>]

\* perform_attack with random.random() = roll / 100:
\* [em, state |-> what it leaves, hit |-> the value returned,
\*  events |-> the listener calls it made, in order]
CB_perform_attack(em, state, attacker, defender, roll) ==
    IF ~(EM_entity_exists(em, attacker) /\ EM_entity_exists(em, defender))
    THEN [em |-> em, state |-> state, hit |-> FALSE, events |-> <<>>]
    ELSE IF ~(/\ EM_has_component(em, attacker, "CombatStats")
              /\ EM_has_component(em, defender, "CombatStats")
              /\ EM_has_component(em, defender, "Health"))
    THEN [em |-> em, state |-> state, hit |-> FALSE, events |-> <<>>]
    ELSE LET attacker_stats == Comp(em, attacker, "CombatStats")
             defender_stats == Comp(em, defender, "CombatStats")
             hit == roll <= CB_calculate_hit_chance(attacker_stats.attack, defender_stats.defense)
         IN  IF hit
             THEN LET damage == ST_calculate_damage(attacker_stats, defender_stats.defense)
                      r      == H_take_damage(Comp(em, defender, "Health"), damage)
                      em1    == SetComponent(em, defender, "Health", r.health)
                  IN  [em     |-> em1,
                       state  |-> IF r.killed THEN GL_handle_entity_death(em1, state, defender)
                                  ELSE state,
                       hit    |-> TRUE,
                       events |-> <<Event("hit", attacker, defender, damage)>>
                                  \o (IF r.killed THEN <<Event("death", attacker, defender, 0)>>
                                      ELSE <<>>)]
             ELSE [em |-> em, state |-> state, hit |-> FALSE,
                   events |-> <<Event("miss", attacker, defender, 0)>>]

\* a can_attack that accepts a defender on the attacker's own tile
CB_can_attack_SameTile(em, attacker, defender) ==
    IF ~(EM_entity_exists(em, attacker) /\ EM_entity_exists(em, defender)) THEN FALSE
    ELSE IF ~(EM_has_component(em, attacker, "CombatStats")
              /\ EM_has_component(em, defender, "Health")) THEN FALSE
    ELSE IF Comp(em, defender, "Health").is_dead THEN FALSE
    ELSE IF ~(EM_has_component(em, attacker, "Position")
              /\ EM_has_component(em, defender, "Position")) THEN FALSE
    ELSE AI_manhattan_distance(Comp(em, attacker, "Position"), Comp(em, defender, "Position")) <= 1

CB_can_attack(em, attacker, defender) ==
    IF ~(EM_entity_exists(em, attacker) /\ EM_entity_exists(em, defender)) THEN FALSE
    ELSE IF ~(EM_has_component(em, attacker, "CombatStats")
              /\ EM_has_component(em, defender, "Health")) THEN FALSE
    ELSE IF Comp(em, defender, "Health").is_dead THEN FALSE
    ELSE IF ~(EM_has_component(em, attacker, "Position")
              /\ EM_has_component(em, defender, "Position")) THEN FALSE
    ELSE AI_manhattan_distance(Comp(em, attacker, "Position"), Comp(em, defender, "Position")) = 1

\* a loop body that does not look at TurnState
CB_update_entity_IgnoresTurnState(em, state, e, roll) ==
    LET intent == Comp(em, e, "AIIntent")
    IN  IF intent.action_type = "ATTACK" /\ intent.target_entity # NoEntity
        THEN LET r   == CB_perform_attack(em, state, e, intent.target_entity, roll)
                 em1 == SetComponent(r.em, e, "AIIntent", NewIntent)
                 em2 == IF EM_has_component(em1, e, "TurnState")
                        THEN SetComponent(em1, e, "TurnState", [can_act |-> FALSE])
                        ELSE em1
             IN  [r EXCEPT !.em = em2]
        ELSE [em |-> em, state |-> state, hit |-> FALSE, events |-> <<>>]

\* the per-entity body of CombatSystem.update's loop
CB_update_entity(em, state, e, roll) ==
    IF ~EM_has_component(em, e, "TurnState") \/ ~Comp(em, e, "TurnState").can_act
    THEN [em |-> em, state |-> state, hit |-> FALSE, events |-> <<>>]
    ELSE LET intent == Comp(em, e, "AIIntent")
         IN  IF intent.action_type = "ATTACK" /\ intent.target_entity # NoEntity
             THEN LET r   == CB_perform_attack(em, state, e, intent.target_entity, roll)
                      em1 == SetComponent(r.em, e, "AIIntent", NewIntent)
                      em2 == SetComponent(em1, e, "TurnState", [can_act |-> FALSE])
                  IN  [r EXCEPT !.em = em2]
             ELSE [em |-> em, state |-> state, hit |-> FALSE, events |-> <<>>]

\* ---------------------------------------------------------------- the world

\* World.create_player with get_random_floor_position() = tile
W_create_player(em, tile) ==
    LET r  == EM_create_entity(em)
        a1 == EM_add_component(r.em, r.ret, "Position", tile)
        a2 == EM_add_component(a1, r.ret, "Health", PlayerHealth)
        a3 == EM_add_component(a2, r.ret, "CombatStats", PlayerStats)
        a4 == EM_add_component(a3, r.ret, "PlayerTag", [tag |-> TRUE])
        a5 == EM_add_component(a4, r.ret, "TurnState", [can_act |-> TRUE])
    IN  [em |-> a5, ret |-> r.ret]

\* Python's truth value of an Optional[int]: None and 0 are false
Truthy(id) == id # NoEntity /\ id # 0

\* World.create_enemy: the tiles its placement loop can end on
W_enemy_tiles(em, player_id) ==
    IF Truthy(player_id)
    THEN {t \in FloorTiles : AI_manhattan_distance(Comp(em, player_id, "Position"), t) >= 5}
    ELSE FloorTiles

\* World.create_enemy with the placement loop ending on tile
W_create_enemy(em, type, tile) ==
    LET r  == EM_create_entity(em)
        a1 == EM_add_component(r.em, r.ret, "Position", tile)
        a2 == EM_add_component(a1, r.ret, "AIIntent", NewIntent)
        a3 == EM_add_component(a2, r.ret, "TurnState", [can_act |-> TRUE])
        a4 == EM_add_component(a3, r.ret, "Health", EnemyHealth(type))
        a5 == EM_add_component(a4, r.ret, "CombatStats", EnemyStats(type))
    IN  [em |-> a5, ret |-> r.ret]

\* World.populate_enemies: one create_enemy for each entry of types, placed
\* on the matching entry of tiles
RECURSIVE W_populate_enemies(_, _, _)
W_populate_enemies(em, types, tiles) ==
    IF types = <<>> THEN em
    ELSE W_populate_enemies(W_create_enemy(em, Head(types), Head(tiles)).em,
                            Tail(types), Tail(tiles))

\* EntityManager.__init__
NewEM == [next |-> 0, entities |-> {}, pending |-> {}, cs |-> Store(EmptyDict, EmptyDict)]

\* ------------------------------------------------------------------ GameLoop

\* GameLoop._activate_all_entities_for_first_turn
GL_activate_all_entities_for_first_turn(em) ==
    IF "TurnState" \in DOMAIN em.cs.stores
    THEN [em EXCEPT !.cs.stores["TurnState"] = [e \in DOMAIN @ |-> [can_act |-> TRUE]]]
    ELSE em

\* _handle_attack_action: directions
Directions == << <<0, -1>>, <<0, 1>>, <<-1, 0>>, <<1, 0>> >>

NoAttack(em, state) == [em |-> em, state |-> state, hit |-> FALSE, events |-> <<>>]

\* the loop of _handle_attack_action from the i-th direction on
RECURSIVE GL_attack_scan(_, _, _, _, _, _)
GL_attack_scan(em, ms, state, player_id, roll, i) ==
    IF i > Len(Directions) THEN NoAttack(em, state)
    ELSE LET player_pos == Comp(em, player_id, "Position")
             target_id  == MS_get_entity_at_position(ms,
                               <<player_pos[1] + Directions[i][1], player_pos[2] + Directions[i][2]>>)
         IN  IF Truthy(target_id) /\ target_id # player_id /\ CB_can_attack(em, player_id, target_id)
             THEN CB_perform_attack(em, state, player_id, target_id, roll)
             ELSE GL_attack_scan(em, ms, state, player_id, roll, i + 1)

GL_handle_attack_action(em, ms, state, player_id, roll) ==
    IF ~EM_has_component(em, player_id, "Position")
    THEN NoAttack(em, state)
    ELSE GL_attack_scan(em, ms, state, player_id, roll, 1)

\* ---------------------------------------------------------------- InputSystem

\* the events InputSystem.update can find in the queue: a mapped key, named by
\* its action, no event, or the window being closed.  PICKUP, USE_ITEM and
\* EXAMINE have no callback, as INVENTORY; TOGGLE_FULLSCREEN changes the
\* display only.
Inputs == {"MOVE_UP", "MOVE_DOWN", "MOVE_LEFT", "MOVE_RIGHT", "WAIT", "ATTACK",
           "QUIT", "INVENTORY", "NO_KEY", "WINDOW_CLOSE"}

MoveInputs == {"MOVE_UP", "MOVE_DOWN", "MOVE_LEFT", "MOVE_RIGHT"}

\* GameLoop._register_input_callbacks: the deltas of the movement callbacks
MoveDelta(input) ==
    CASE input = "MOVE_UP"    -> <<0, -1>>
      [] input = "MOVE_DOWN"  -> <<0, 1>>
      [] input = "MOVE_LEFT"  -> <<-1, 0>>
      [] input = "MOVE_RIGHT" -> <<1, 0>>

MoveCall(entity, dx, dy, ok) ==
    [called |-> TRUE, entity |-> entity, dx |-> dx, dy |-> dy, ok |-> ok]

NoMove == [called |-> FALSE, entity |-> NoEntity, dx |-> 0, dy |-> 0, ok |-> FALSE]

\* the actions InputSystem._input_mapping maps keys to and the model's other
\* specifications leave out
StubInputs == {"PICKUP", "USE_ITEM", "EXAMINE", "TOGGLE_FULLSCREEN"}

\* every action a mapped key stands for
MappedInputs == (Inputs \ {"NO_KEY", "WINDOW_CLOSE"}) \cup StubInputs

\* an InputSystem.update that counts an action only when it has a callback
IN_update_HandledOnly(em, ms, state, quit, player_id, input, roll) ==
    LET idle == [em |-> em, ms |-> ms, state |-> state, action_taken |-> FALSE,
                 should_quit |-> quit,
                 move_call |-> NoMove, events |-> <<>>]
        act  == [idle EXCEPT !.action_taken = TRUE]
    IN  IF player_id = NoEntity \/ input = "NO_KEY" THEN idle
        ELSE IF input = "WINDOW_CLOSE" THEN [idle EXCEPT !.should_quit = TRUE]
        ELSE IF input \in MoveInputs
        THEN LET d == MoveDelta(input)
                 r == MS_try_move_entity(em, ms, player_id, d[1], d[2])
             IN  [act EXCEPT !.em = r.em, !.ms = r.ms,
                             !.move_call = MoveCall(player_id, d[1], d[2], r.ok)]
        ELSE IF input = "ATTACK"
        THEN LET r == GL_handle_attack_action(em, ms, state, player_id, roll)
             IN  [act EXCEPT !.em = r.em, !.state = r.state, !.events = r.events]
        ELSE IF input = "QUIT" THEN [act EXCEPT !.should_quit = TRUE]
        ELSE IF input \in {"WAIT", "TOGGLE_FULLSCREEN"} THEN act
        ELSE idle

\* InputSystem.update on the event `input`, with the callbacks GameLoop
\* registered; roll is the value of random.random() if an attack is made
IN_update(em, ms, state, quit, player_id, input, roll) ==
    LET idle == [em |-> em, ms |-> ms, state |-> state, action_taken |-> FALSE,
                 should_quit |-> quit,
                 move_call |-> NoMove, events |-> <<>>]
        act  == [idle EXCEPT !.action_taken = TRUE]
    IN  IF player_id = NoEntity \/ input = "NO_KEY" THEN idle
        ELSE IF input = "WINDOW_CLOSE" THEN [idle EXCEPT !.should_quit = TRUE]
        ELSE IF input \in MoveInputs
        THEN LET d == MoveDelta(input)
                 r == MS_try_move_entity(em, ms, player_id, d[1], d[2])
             IN  [act EXCEPT !.em = r.em, !.ms = r.ms,
                             !.move_call = MoveCall(player_id, d[1], d[2], r.ok)]
        ELSE IF input = "ATTACK"
        THEN LET r == GL_handle_attack_action(em, ms, state, player_id, roll)
             IN  [act EXCEPT !.em = r.em, !.state = r.state, !.events = r.events]
        ELSE IF input = "QUIT" THEN [act EXCEPT !.should_quit = TRUE]
        ELSE act

\* ------------------------------------------------------- the turn pipeline

\* the most turns played
MaxTurns == 2

TheMS == [occ |-> occupancy_map, impassable |-> impassable_positions]

SetMS(ms) ==
    /\ occupancy_map' = ms.occ
    /\ impassable_positions' = ms.impassable

\* the value next(iter(player_entities)) can take, NoEntity when the set is empty
Players(em, types) ==
    LET found == EM_get_entities_with_components(em, types)
    IN  IF found = {} THEN {NoEntity} ELSE found

\* the end of GameLoop.update, after the turn if one was played: the check of
\* should_quit (rendering changes no state of the model)
GL_finish(quit) ==
    /\ running' = IF quit THEN FALSE ELSE running
    /\ phase' = IF running' THEN "input" ELSE "stopped"

\* a call on the combat bench
BenchCall(op, args, ret) == [op |-> op, args |-> args, ret |-> ret]

\* the bench variables when the bench is not in use
BenchIdle ==
    /\ bench_call = BenchCall("none", <<>>, FALSE)
    /\ death_count = EmptyDict

\* the state before GameLoop.run: the world GameLoop.__init__ builds, then
\* initialize_game and _activate_all_entities_for_first_turn
GameInit ==
    /\ \E player_tile \in FloorTiles, types \in [EnemySlots -> EnemyTypes] :
         LET p == W_create_player(NewEM, player_tile)
         IN  \E tiles \in [EnemySlots -> W_enemy_tiles(p.em, p.ret)] :
               LET em == GL_activate_all_entities_for_first_turn(
                             W_populate_enemies(p.em, types, tiles))
               IN  /\ next_entity_id = em.next
                   /\ entities = em.entities
                   /\ entities_pending_deletion = em.pending
                   /\ component_stores = em.cs.stores
                   /\ entity_components = em.cs.ecomps
                   /\ created_ids = [i \in 1..em.next |-> i - 1]
                   /\ started_distinct =
                          (\A a, b \in em.entities :
                              a # b => Comp(em, a, "Position") # Comp(em, b, "Position"))
    /\ last = Call("init", -1, {}, FALSE)
    /\ RegInit
    /\ BenchIdle
    /\ occupancy_map = EmptyDict
    /\ impassable_positions = Walls
    /\ path_cache = EmptyDict
    /\ turn_number = 0
    /\ game_state = "ACTIVE"
    /\ action_taken = FALSE
    /\ should_quit = FALSE
    /\ running = TRUE
    /\ phase = "input"
    /\ todo = {}
    /\ move_call = NoMove
    /\ events = <<>>

\* the game variables when no game is running
GameIdle ==
    /\ occupancy_map = EmptyDict
    /\ impassable_positions = {}
    /\ path_cache = EmptyDict
    /\ turn_number = 0
    /\ game_state = "ACTIVE"
    /\ action_taken = FALSE
    /\ should_quit = FALSE
    /\ running = FALSE
    /\ phase = "stopped"
    /\ todo = {}
    /\ move_call = NoMove
    /\ events = <<>>
    /\ started_distinct = TRUE

\* a second scenario: a wall-enclosed corridor, long enough for an enemy to
\* stand farther than the detection range from the player
Corridor == [width |-> 12, height |-> 3]

CorridorWalls ==
    {<<x, y>> : x \in 0..(Corridor.width - 1), y \in {0, Corridor.height - 1}}
        \cup {<<x, y>> : x \in {0, Corridor.width - 1}, y \in 0..(Corridor.height - 1)}

CorridorFloor ==
    {<<x, y>> : x \in 1..(Corridor.width - 2), y \in 1..(Corridor.height - 2)} \ CorridorWalls

\* the state before the first turn in the corridor: create_player and one
\* create_enemy on floor tiles, the walls passed to set_impassable_positions
CorridorInit ==
    /\ \E player_tile \in CorridorFloor, enemy_tile \in CorridorFloor, type \in EnemyTypes :
         LET p  == W_create_player(NewEM, player_tile)
             em == GL_activate_all_entities_for_first_turn(
                       W_create_enemy(p.em, type, enemy_tile).em)
         IN  /\ next_entity_id = em.next
             /\ entities = em.entities
             /\ entities_pending_deletion = em.pending
             /\ component_stores = em.cs.stores
             /\ entity_components = em.cs.ecomps
             /\ created_ids = [i \in 1..em.next |-> i - 1]
             /\ started_distinct = (player_tile # enemy_tile)
    /\ last = Call("init", -1, {}, FALSE)
    /\ RegInit
    /\ BenchIdle
    /\ occupancy_map = EmptyDict
    /\ impassable_positions = CorridorWalls
    /\ path_cache = EmptyDict
    /\ turn_number = 0
    /\ game_state = "ACTIVE"
    /\ action_taken = FALSE
    /\ should_quit = FALSE
    /\ running = TRUE
    /\ phase = "input"
    /\ todo = {}
    /\ move_call = NoMove
    /\ events = <<>>

\* a scenario with two rows of floor: a hall in which an enemy can stand
\* farther than the detection range from the player and a diagonal step can
\* lead to a floor tile
Hall == [width |-> 12, height |-> 4]

HallWalls ==
    {<<x, y>> : x \in 0..(Hall.width - 1), y \in {0, Hall.height - 1}}
        \cup {<<x, y>> : x \in {0, Hall.width - 1}, y \in 0..(Hall.height - 1)}

HallFloor ==
    {<<x, y>> : x \in 0..(Hall.width - 1), y \in 0..(Hall.height - 1)} \ HallWalls

\* the state before the first turn in the hall: the player and one goblin
HallInit ==
    /\ \E player_tile \in HallFloor, enemy_tile \in HallFloor :
         LET p  == W_create_player(NewEM, player_tile)
             em == GL_activate_all_entities_for_first_turn(
                       W_create_enemy(p.em, "goblin", enemy_tile).em)
         IN  /\ next_entity_id = em.next
             /\ entities = em.entities
             /\ entities_pending_deletion = em.pending
             /\ component_stores = em.cs.stores
             /\ entity_components = em.cs.ecomps
             /\ created_ids = [i \in 1..em.next |-> i - 1]
             /\ started_distinct = (player_tile # enemy_tile)
    /\ last = Call("init", -1, {}, FALSE)
    /\ RegInit
    /\ BenchIdle
    /\ occupancy_map = EmptyDict
    /\ impassable_positions = HallWalls
    /\ path_cache = EmptyDict
    /\ turn_number = 0
    /\ game_state = "ACTIVE"
    /\ action_taken = FALSE
    /\ should_quit = FALSE
    /\ running = TRUE
    /\ phase = "input"
    /\ todo = {}
    /\ move_call = NoMove
    /\ events = <<>>

\* a scenario with three floor tiles in a row, in which the player can find
\* a goblin through the occupancy map, kill it and step away from it
Closet == [width |-> 5, height |-> 3]

ClosetWalls ==
    {<<x, y>> : x \in 0..(Closet.width - 1), y \in {0, Closet.height - 1}}
        \cup {<<x, y>> : x \in {0, Closet.width - 1}, y \in 0..(Closet.height - 1)}

ClosetFloor ==
    {<<x, y>> : x \in 0..(Closet.width - 1), y \in 0..(Closet.height - 1)} \ ClosetWalls

\* the state before the first turn in the closet: the player and one goblin
ClosetInit ==
    /\ \E player_tile \in ClosetFloor, enemy_tile \in ClosetFloor :
         LET p  == W_create_player(NewEM, player_tile)
             em == GL_activate_all_entities_for_first_turn(
                       W_create_enemy(p.em, "goblin", enemy_tile).em)
         IN  /\ next_entity_id = em.next
             /\ entities = em.entities
             /\ entities_pending_deletion = em.pending
             /\ component_stores = em.cs.stores
             /\ entity_components = em.cs.ecomps
             /\ created_ids = [i \in 1..em.next |-> i - 1]
             /\ started_distinct = (player_tile # enemy_tile)
    /\ last = Call("init", -1, {}, FALSE)
    /\ RegInit
    /\ BenchIdle
    /\ occupancy_map = EmptyDict
    /\ impassable_positions = ClosetWalls
    /\ path_cache = EmptyDict
    /\ turn_number = 0
    /\ game_state = "ACTIVE"
    /\ action_taken = FALSE
    /\ should_quit = FALSE
    /\ running = TRUE
    /\ phase = "input"
    /\ todo = {}
    /\ move_call = NoMove
    /\ events = <<>>

\* a third scenario: a room with a single floor tile, on which create_player
\* and every create_enemy place their entity; six trolls that all hit kill
\* the player
Cell == [width |-> 3, height |-> 3]

CellWalls ==
    {<<x, y>> : x \in 0..(Cell.width - 1), y \in {0, Cell.height - 1}}
        \cup {<<x, y>> : x \in {0, Cell.width - 1}, y \in 0..(Cell.height - 1)}

CellFloor ==
    {<<x, y>> : x \in 0..(Cell.width - 1), y \in 0..(Cell.height - 1)} \ CellWalls

CellSlots == 1..6

\* the state before the first turn in the cell
CellInit ==
    /\ \E player_tile \in CellFloor, tiles \in [CellSlots -> CellFloor] :
         LET p  == W_create_player(NewEM, player_tile)
             em == GL_activate_all_entities_for_first_turn(
                       W_populate_enemies(p.em, [i \in CellSlots |-> "troll"], tiles))
         IN  /\ next_entity_id = em.next
             /\ entities = em.entities
             /\ entities_pending_deletion = em.pending
             /\ component_stores = em.cs.stores
             /\ entity_components = em.cs.ecomps
             /\ created_ids = [i \in 1..em.next |-> i - 1]
             /\ started_distinct = FALSE
    /\ last = Call("init", -1, {}, FALSE)
    /\ RegInit
    /\ BenchIdle
    /\ occupancy_map = EmptyDict
    /\ impassable_positions = CellWalls
    /\ path_cache = EmptyDict
    /\ turn_number = 0
    /\ game_state = "ACTIVE"
    /\ action_taken = FALSE
    /\ should_quit = FALSE
    /\ running = TRUE
    /\ phase = "input"
    /\ todo = {}
    /\ move_call = NoMove
    /\ events = <<>>

\* the most turns played in the closet, where a kill takes three
MaxLongTurns == 4

\* GameLoop.update, line 222: input_system.update, while fewer than `limit`
\* turns have been played
InputStep(limit) ==
    /\ phase = "input"
    /\ turn_number < limit
    /\ \E input \in Inputs, roll \in Rolls,
          player_id \in Players(TheEM, <<"PlayerTag", "Position">>) :
         LET r == IN_update(TheEM, TheMS, game_state, should_quit, player_id, input, roll)
         IN  /\ SetEM(r.em)
             /\ SetMS(r.ms)
             /\ game_state' = r.state
             /\ action_taken' = r.action_taken
             /\ should_quit' = r.should_quit
             /\ move_call' = r.move_call
             /\ events' = r.events
    /\ phase' = "after_input"
    /\ UNCHANGED <<created_ids, last, regVars, benchVars, started_distinct, path_cache, turn_number, running, todo>>

InputUpdate == InputStep(MaxTurns)

\* the same step under the closet's bound
LongInputUpdate == InputStep(MaxLongTurns)

\* the same step with every mapped action among the inputs, the action
\* received and what its callback did kept in bench_call
KeyedInputUpdate ==
    /\ phase = "input"
    /\ turn_number < MaxTurns
    /\ \E input \in Inputs \cup StubInputs, roll \in Rolls,
          player_id \in Players(TheEM, <<"PlayerTag", "Position">>) :
         LET r == IN_update(TheEM, TheMS, game_state, should_quit, player_id, input, roll)
         IN  /\ SetEM(r.em)
             /\ SetMS(r.ms)
             /\ game_state' = r.state
             /\ action_taken' = r.action_taken
             /\ should_quit' = r.should_quit
             /\ move_call' = r.move_call
             /\ events' = r.events
             /\ bench_call' = BenchCall("input", <<input>>,
                                        [move_call |-> r.move_call, events |-> r.events])
    /\ phase' = "after_input"
    /\ UNCHANGED <<created_ids, last, regVars, death_count, started_distinct, path_cache,
                   turn_number, running, todo>>

\* an update without an action that advances the turn counter all the same
NoAction_Advances ==
    /\ phase = "after_input"
    /\ ~action_taken
    /\ GL_finish(should_quit)
    /\ turn_number' = turn_number + 1
    /\ move_call' = NoMove
    /\ events' = <<>>
    /\ UNCHANGED <<ecsVars, regVars, benchVars, started_distinct, occupancy_map, impassable_positions, path_cache,
                   game_state, action_taken, should_quit, todo>>

\* GameLoop.update when no action was taken: lines 250-262
NoAction ==
    /\ phase = "after_input"
    /\ ~action_taken
    /\ GL_finish(should_quit)
    /\ move_call' = NoMove
    /\ events' = <<>>
    /\ UNCHANGED <<ecsVars, regVars, benchVars, started_distinct, occupancy_map, impassable_positions, path_cache,
                   turn_number, game_state, action_taken, should_quit, todo>>

\* GameLoop.update, lines 225-235, and AISystem.update up to its loop
AIStart ==
    /\ phase = "after_input"
    /\ action_taken
    /\ action_taken' = FALSE
    /\ todo' = IF EM_get_entities_with_components(TheEM, <<"PlayerTag", "Position">>) = {}
               THEN {}
               ELSE EM_get_entities_with_components(TheEM, <<"AIIntent", "Position">>)
    /\ phase' = "ai_loop"
    /\ move_call' = NoMove
    /\ events' = <<>>
    /\ UNCHANGED <<ecsVars, regVars, benchVars, started_distinct, occupancy_map, impassable_positions, path_cache,
                   turn_number, game_state, should_quit, running>>

\* one iteration of the loop of AISystem.update
AIEntity ==
    /\ phase = "ai_loop"
    /\ \E e \in todo, player_id \in EM_get_entities_with_components(TheEM, <<"PlayerTag", "Position">>) :
         \E out \in AI_update_entity(TheEM, path_cache, e, player_id) :
            /\ SetEM(out.em)
            /\ path_cache' = out.cache
            /\ todo' = todo \ {e}
    /\ move_call' = NoMove
    /\ events' = <<>>
    /\ UNCHANGED <<created_ids, last, regVars, benchVars, started_distinct, occupancy_map, impassable_positions,
                   turn_number, game_state, action_taken, should_quit,
                   running, phase>>

\* MovementSystem.update up to its loop: the occupancy map is rebuilt
MovementStart ==
    /\ phase = "ai_loop"
    /\ todo = {}
    /\ \E order \in Orders(EM_get_entities_with_components(TheEM, <<"Position">>)) :
         SetMS(MS_rebuild_occupancy_map(TheEM, TheMS, order))
    /\ todo' = EM_get_entities_with_components(TheEM, <<"Position", "AIIntent">>)
    /\ phase' = "movement_loop"
    /\ move_call' = NoMove
    /\ events' = <<>>
    /\ UNCHANGED <<ecsVars, regVars, benchVars, started_distinct, path_cache, turn_number, game_state, action_taken,
                   should_quit, running>>

\* one iteration of the loop of MovementSystem.update
MoveEntity ==
    /\ phase = "movement_loop"
    /\ \E e \in todo :
         LET r == MS_update_entity(TheEM, TheMS, e)
         IN  /\ SetEM(r.em)
             /\ SetMS(r.ms)
             /\ move_call' = IF r.called THEN MoveCall(e, r.dx, r.dy, r.ok) ELSE NoMove
             /\ todo' = todo \ {e}
    /\ events' = <<>>
    /\ UNCHANGED <<created_ids, last, regVars, benchVars, started_distinct, path_cache, turn_number, game_state,
                   action_taken, should_quit, running, phase>>

\* a combat update that starts as soon as the AI update has ended, without
\* waiting for the movement update
CombatStart_BeforeMovement ==
    /\ phase = "ai_loop"
    /\ todo = {}
    /\ todo' = EM_get_entities_with_components(TheEM, <<"AIIntent", "Position">>)
    /\ phase' = "combat_loop"
    /\ move_call' = NoMove
    /\ events' = <<>>
    /\ UNCHANGED <<ecsVars, regVars, benchVars, started_distinct, occupancy_map, impassable_positions, path_cache,
                   turn_number, game_state, action_taken, should_quit, running>>

\* CombatSystem.update up to its loop
CombatStart ==
    /\ phase = "movement_loop"
    /\ todo = {}
    /\ todo' = EM_get_entities_with_components(TheEM, <<"AIIntent", "Position">>)
    /\ phase' = "combat_loop"
    /\ move_call' = NoMove
    /\ events' = <<>>
    /\ UNCHANGED <<ecsVars, regVars, benchVars, started_distinct, occupancy_map, impassable_positions, path_cache,
                   turn_number, game_state, action_taken, should_quit, running>>

\* one iteration of the loop of CombatSystem.update
CombatEntity ==
    /\ phase = "combat_loop"
    /\ \E e \in todo, roll \in Rolls :
         LET r == CB_update_entity(TheEM, game_state, e, roll)
         IN  /\ SetEM(r.em)
             /\ game_state' = r.state
             /\ events' = r.events
             /\ todo' = todo \ {e}
    /\ move_call' = NoMove
    /\ UNCHANGED <<created_ids, last, regVars, benchVars, started_distinct, occupancy_map, impassable_positions,
                   path_cache, turn_number, action_taken, should_quit,
                   running, phase>>

\* GameLoop.update, lines 244-262: cleanup_entities, advance_turn and the
\* check of should_quit; an exception leaving cleanup_entities ends the loop
EndTurn ==
    /\ phase = "combat_loop"
    /\ todo = {}
    /\ \E order \in Orders(entities_pending_deletion) :
         LET r == EM_cleanup_entities(TheEM, order)
         IN  /\ SetEM(r.em)
             /\ IF r.raised
                THEN /\ phase' = "crashed"
                     /\ UNCHANGED <<turn_number, running>>
                ELSE /\ turn_number' = turn_number + 1
                     /\ GL_finish(should_quit)
    /\ move_call' = NoMove
    /\ events' = <<>>
    /\ UNCHANGED <<created_ids, last, regVars, benchVars, started_distinct, occupancy_map, impassable_positions,
                   path_cache, game_state, action_taken, should_quit, todo>>

\* ------------------------------------------------------- the combat bench
\* Two entities built through the entity manager with any of Position, Health
\* and CombatStats, and the operations of CombatSystem and Health called on
\* them directly, with a death listener that counts its calls per victim.

BenchIds == {0, 1}

\* the ids passed to the bench: the two entities and an id never created
BenchArgs == {0, 1, 2}

\* the optional components of the bench entities: <<>> for none, <<v>> for v
BenchPositions == [e \in BenchIds |->
    IF e = 0 THEN {<<>>, << <<1, 1>> >>}
    ELSE {<<>>, << <<1, 1>> >>, << <<1, 2>> >>, << <<2, 2>> >>}]

BenchHealths == [e \in BenchIds |->
    IF e = 0 THEN {<<>>, <<Health(10, 10)>>}
    ELSE {<<>>, <<Health(10, 10)>>, <<Health(3, 10)>>}]

BenchStats == {<<>>, <<PlayerStats>>, <<EnemyStats("goblin")>>}

\* the amounts passed to Health.heal
HealAmounts == {4, 20}

AddOptional(em, e, k, opt) ==
    IF opt = <<>> THEN em ELSE EM_add_component(em, e, k, opt[1])

\* one bench entity: create_entity, then add_component for each component given
BenchEntity(em, pos, health, stats) ==
    LET r == EM_create_entity(em)
    IN  AddOptional(AddOptional(AddOptional(r.em, r.ret, "Position", pos),
                                r.ret, "Health", health),
                    r.ret, "CombatStats", stats)

BenchInit ==
    /\ \E p0 \in BenchPositions[0], p1 \in BenchPositions[1],
          h0 \in BenchHealths[0], h1 \in BenchHealths[1],
          s0 \in BenchStats, s1 \in BenchStats :
         LET em0 == BenchEntity(NewEM, p0, h0, s0)
             em1 == EM_add_component(em0, 0, "PlayerTag", [tag |-> TRUE])
             em  == BenchEntity(em1, p1, h1, s1)
         IN  /\ next_entity_id = em.next
             /\ entities = em.entities
             /\ entities_pending_deletion = em.pending
             /\ component_stores = em.cs.stores
             /\ entity_components = em.cs.ecomps
             /\ created_ids = [i \in 1..em.next |-> i - 1]
    /\ last = Call("init", -1, {}, FALSE)
    /\ RegInit
    /\ GameIdle
    /\ bench_call = BenchCall("none", <<>>, FALSE)
    /\ death_count = [e \in BenchIds |-> 0]

\* the death listener of the bench: one more call for each death event
CountDeaths(count, evs) ==
    [e \in DOMAIN count |->
        count[e] + Cardinality({i \in DOMAIN evs : evs[i].kind = "death" /\ evs[i].defender = e})]

BenchUnchangedGame ==
    UNCHANGED <<created_ids, last, regVars, occupancy_map, impassable_positions, path_cache,
                turn_number, action_taken, should_quit, running, phase, todo, move_call,
                started_distinct>>

\* CombatSystem.perform_attack(attacker, defender)
BenchPerformAttack ==
    /\ \E attacker \in BenchArgs, defender \in BenchArgs, roll \in Rolls :
         LET r == CB_perform_attack(TheEM, game_state, attacker, defender, roll)
         IN  /\ SetEM(r.em)
             /\ game_state' = r.state
             /\ events' = r.events
             /\ death_count' = CountDeaths(death_count, r.events)
             /\ bench_call' = BenchCall("perform_attack", <<attacker, defender>>, r.hit)
    /\ BenchUnchangedGame

\* CombatSystem.can_attack(attacker, defender)
BenchCanAttack ==
    /\ \E attacker \in BenchArgs, defender \in BenchArgs :
         bench_call' = BenchCall("can_attack", <<attacker, defender>>,
                                 CB_can_attack(TheEM, attacker, defender))
    /\ events' = <<>>
    /\ BenchUnchangedGame
    /\ UNCHANGED <<next_entity_id, entities, entities_pending_deletion, component_stores,
                   entity_components, game_state, death_count>>

\* Health.heal(amount) on the Health of an entity; the call record keeps the
\* current health the call found
BenchHeal ==
    /\ \E e \in BenchIds, amount \in HealAmounts :
         /\ EM_has_component(TheEM, e, "Health")
         /\ SetEM(SetComponent(TheEM, e, "Health", H_heal(Comp(TheEM, e, "Health"), amount)))
         /\ bench_call' = BenchCall("heal", <<e, amount>>, Comp(TheEM, e, "Health").current)
    /\ events' = <<>>
    /\ BenchUnchangedGame
    /\ UNCHANGED <<game_state, death_count>>

BenchNext ==
    \/ BenchPerformAttack
    \/ BenchCanAttack
    \/ BenchHeal

\* ------------------------------------------------ the combat update bench
\* CombatSystem.update called once over an entity manager holding the player
\* and two trolls next to it, each troll with any intent and with or without
\* a TurnState.

BenchAttackers == {1, 2}

\* the intents a troll can hold when the combat update begins
BenchIntents ==
    {NewIntent, AI_set_attack_intent(0), AI_set_wait_intent, AI_set_move_intent(<<1, 1>>)}

\* the optional TurnState of a troll
BenchTurnStates == {<<>>, <<[can_act |-> TRUE]>>, <<[can_act |-> FALSE]>>}

\* one troll of the bench on `tile`
BenchTroll(em, tile, intent, turn_state) ==
    LET r  == EM_create_entity(em)
        a1 == EM_add_component(r.em, r.ret, "Position", tile)
        a2 == EM_add_component(a1, r.ret, "AIIntent", intent)
        a3 == AddOptional(a2, r.ret, "TurnState", turn_state)
        a4 == EM_add_component(a3, r.ret, "Health", EnemyHealth("troll"))
    IN  EM_add_component(a4, r.ret, "CombatStats", EnemyStats("troll"))

\* the state in which GameLoop.update calls combat_system.update
CombatUpdateInit ==
    /\ \E intents \in [BenchAttackers -> BenchIntents],
          turn_states \in [BenchAttackers -> BenchTurnStates] :
         LET p   == W_create_player(NewEM, <<1, 1>>)
             em1 == BenchTroll(p.em, <<1, 2>>, intents[1], turn_states[1])
             em  == BenchTroll(em1, <<2, 1>>, intents[2], turn_states[2])
         IN  /\ next_entity_id = em.next
             /\ entities = em.entities
             /\ entities_pending_deletion = em.pending
             /\ component_stores = em.cs.stores
             /\ entity_components = em.cs.ecomps
             /\ created_ids = [i \in 1..em.next |-> i - 1]
    /\ last = Call("init", -1, {}, FALSE)
    /\ RegInit
    /\ BenchIdle
    /\ occupancy_map = EmptyDict
    /\ impassable_positions = {}
    /\ path_cache = EmptyDict
    /\ turn_number = 0
    /\ game_state = "ACTIVE"
    /\ action_taken = FALSE
    /\ should_quit = FALSE
    /\ running = TRUE
    /\ phase = "movement_loop"
    /\ todo = {}
    /\ move_call = NoMove
    /\ events = <<>>
    /\ started_distinct = TRUE

CombatUpdateNext ==
    \/ CombatStart
    \/ CombatEntity

\* ---------------------------------------------------- the scheduler bench
\* A TurnSchedulerSystem over an entity manager holding the player and a
\* troll, with its operations called directly and, between them, attacks of
\* the troll on the player with the death listener of GameLoop.

\* an update that goes back to ACTIVE when it finds the player alive
TS_update_Revives(em, state) ==
    LET players == EM_get_entities_with_components(em, <<"PlayerTag">>)
    IN  IF players = {} THEN {state}
        ELSE {IF EM_has_component(em, player_id, "Health")
                 /\ Comp(em, player_id, "Health").is_dead
              THEN "GAME_OVER" ELSE "ACTIVE" : player_id \in players}

\* TurnSchedulerSystem.update: the game states it can leave
TS_update(em, state) ==
    IF state = "GAME_OVER" THEN {state}
    ELSE LET players == EM_get_entities_with_components(em, <<"PlayerTag">>)
         IN  IF players = {} THEN {state}
             ELSE {IF EM_has_component(em, player_id, "Health")
                      /\ Comp(em, player_id, "Health").is_dead
                   THEN "GAME_OVER" ELSE state : player_id \in players}

\* TurnSchedulerSystem.set_game_over
TS_set_game_over(state) == "GAME_OVER"

\* TurnSchedulerSystem.advance_turn
TS_advance_turn(n) == n + 1

SchedulerInit ==
    /\ \E tagged \in BOOLEAN, health \in BenchHealths[0] :
         LET em0 == BenchEntity(NewEM, <<>>, health, <<PlayerStats>>)
             em1 == IF tagged THEN EM_add_component(em0, 0, "PlayerTag", [tag |-> TRUE])
                    ELSE em0
             em  == BenchEntity(em1, <<>>, <<EnemyHealth("troll")>>, <<EnemyStats("troll")>>)
         IN  /\ next_entity_id = em.next
             /\ entities = em.entities
             /\ entities_pending_deletion = em.pending
             /\ component_stores = em.cs.stores
             /\ entity_components = em.cs.ecomps
             /\ created_ids = [i \in 1..em.next |-> i - 1]
    /\ last = Call("init", -1, {}, FALSE)
    /\ RegInit
    /\ GameIdle
    /\ BenchIdle

SchedUnchanged ==
    UNCHANGED <<created_ids, last, regVars, occupancy_map, impassable_positions, path_cache,
                action_taken, should_quit, running, phase, todo, move_call,
                started_distinct, death_count>>

\* TurnSchedulerSystem.update(entity_manager, dt)
SchedUpdate ==
    /\ \E state \in TS_update(TheEM, game_state) :
         /\ game_state' = state
         /\ bench_call' = BenchCall("update", <<>>, state)
    /\ events' = <<>>
    /\ SchedUnchanged
    /\ UNCHANGED <<next_entity_id, entities, entities_pending_deletion, component_stores,
                   entity_components, turn_number>>

\* TurnSchedulerSystem.set_game_over()
SchedSetGameOver ==
    /\ game_state' = TS_set_game_over(game_state)
    /\ bench_call' = BenchCall("set_game_over", <<>>, game_state)
    /\ events' = <<>>
    /\ SchedUnchanged
    /\ UNCHANGED <<next_entity_id, entities, entities_pending_deletion, component_stores,
                   entity_components, turn_number>>

\* TurnSchedulerSystem.advance_turn()
SchedAdvanceTurn ==
    /\ turn_number < MaxTurns
    /\ turn_number' = TS_advance_turn(turn_number)
    /\ bench_call' = BenchCall("advance_turn", <<>>, game_state)
    /\ events' = <<>>
    /\ SchedUnchanged
    /\ UNCHANGED <<next_entity_id, entities, entities_pending_deletion, component_stores,
                   entity_components, game_state>>

\* CombatSystem.perform_attack(troll, player)
SchedAttack ==
    /\ \E roll \in Rolls :
         LET r == CB_perform_attack(TheEM, game_state, 1, 0, roll)
         IN  /\ SetEM(r.em)
             /\ game_state' = r.state
             /\ events' = r.events
             /\ bench_call' = BenchCall("perform_attack", <<1, 0>>, game_state)
    /\ SchedUnchanged
    /\ UNCHANGED turn_number

SchedulerNext ==
    \/ SchedUpdate
    \/ SchedSetGameOver
    \/ SchedAdvanceTurn
    \/ SchedAttack

\* ------------------------------------------------------ the combat formulas
\* _calculate_hit_chance and calculate_damage called on their own.

\* the attack and defense values passed to _calculate_hit_chance
StatArgs == {-1000000, -40, -1, 0, 1, 2, 3, 5, 18, 40, 1000000}

\* the power and defense values passed to calculate_damage
DamageArgs == {0, 1, 2, 3, 5, 6, 7, 40, 1000000}

\* the Health the damage is applied to
DamageHealths == {Health(10, 10), Health(3, 10), Health(1, 1)}

\* CombatSystem._calculate_hit_chance(attack, defense)
CalcHitChance ==
    /\ \E attack \in StatArgs, defense \in StatArgs :
         bench_call' = BenchCall("hit_chance", <<attack, defense>>,
                                 CB_calculate_hit_chance(attack, defense))
    /\ UNCHANGED <<ecsVars, regVars, gameVars, death_count>>

\* perform_attack, lines 103-106: calculate_damage, then take_damage on the
\* defender's Health
CalcDamage ==
    /\ \E power \in DamageArgs, defense \in DamageArgs, health \in DamageHealths :
         LET damage == ST_calculate_damage(CombatStats(0, 0, power), defense)
         IN  bench_call' = BenchCall("damage", <<power, defense, health>>,
                                     [damage |-> damage,
                                      health |-> H_take_damage(health, damage).health])
    /\ UNCHANGED <<ecsVars, regVars, gameVars, death_count>>

\* the values of random.random(), in hundredths, drawn for an attack whose
\* hit chance is `chance`: the ends of the range and the values around it
RollsAround(chance) == {0, chance - 1, chance, chance + 1, 99}

\* the CombatStats of the attacker and of the defender of CalcAttack
AttackStats == {PlayerStats, EnemyStats("goblin"), EnemyStats("troll")}

\* the listeners registered with add_attack_hit_listener,
\* add_attack_miss_listener and add_entity_death_listener, in registration
\* order
ListenerLists ==
    {[hit |-> h, miss |-> <<"e", "f">>, death |-> d] :
        h \in {<<>>, <<"a", "b">>, <<"b", "a">>}, d \in {<<"c">>, <<"c", "d">>}}

\* the calls perform_attack makes to its listeners: for each event, in
\* order, one call to each listener of its kind, in registration order
RECURSIVE CB_listener_calls(_, _)
CB_listener_calls(evs, listeners) ==
    IF evs = <<>> THEN <<>>
    ELSE LET kind == Head(evs).kind
         IN  [i \in DOMAIN listeners[kind] |-> [kind |-> kind, listener |-> listeners[kind][i]]]
                 \o CB_listener_calls(Tail(evs), listeners)

\* perform_attack(0, 1) between two entities holding the required
\* components, with random.random() = roll
CalcAttack ==
    /\ \E attacker_stats \in AttackStats, defender_stats \in AttackStats,
          health \in DamageHealths, listeners \in ListenerLists :
       \E roll \in RollsAround(CB_calculate_hit_chance(attacker_stats.attack,
                                                       defender_stats.defense)) :
         LET em0 == BenchEntity(NewEM, <<>>, <<>>, <<attacker_stats>>)
             em  == BenchEntity(em0, <<>>, <<health>>, <<defender_stats>>)
             r   == CB_perform_attack(em, "ACTIVE", 0, 1, roll)
         IN  bench_call' = BenchCall("perform_attack",
                               <<attacker_stats, defender_stats, health, roll, listeners>>,
                               [hit    |-> r.hit,
                                health |-> Comp(r.em, 1, "Health"),
                                calls  |-> CB_listener_calls(r.events, listeners)])
    /\ UNCHANGED <<ecsVars, regVars, gameVars, death_count>>

\* ------------------------------------------------------------- path bench
\* AISystem._find_path called over and over on one AISystem, with the default
\* max_steps: (start, goal) pairs with both axes differing, with start equal
\* to goal, at distance max_steps, and beyond it
PathPairs ==
    {<<<<0, 0>>, <<2, 1>>>>, <<<<2, 1>>, <<0, 0>>>>, <<<<1, 1>>, <<1, 1>>>>,
     <<<<0, 0>>, <<20, 0>>>>, <<<<0, 0>>, <<21, 1>>>>}

FindPath ==
    /\ \E pair \in PathPairs :
         \E r \in AI_find_path(path_cache, pair[1], pair[2], MaxSteps) :
            /\ path_cache' = r.cache
            /\ bench_call' = BenchCall("find_path", <<pair[1], pair[2]>>,
                                       [path |-> r.path, cached |-> pair \in DOMAIN path_cache])
    /\ UNCHANGED <<ecsVars, regVars, death_count, occupancy_map, impassable_positions,
                   turn_number, game_state, action_taken, should_quit, running, phase,
                   todo, move_call, events, started_distinct>>

PathNext ==
    \/ FindPath

FormulaNext ==
    \/ CalcHitChance
    \/ CalcDamage
    \/ CalcAttack

\* the turns of the closet
ClosetNext ==
    \/ LongInputUpdate
    \/ NoAction
    \/ AIStart
    \/ AIEntity
    \/ MovementStart
    \/ MoveEntity
    \/ CombatStart
    \/ CombatEntity
    \/ EndTurn

\* the turns of the closet with every mapped action
KeysNext ==
    \/ KeyedInputUpdate
    \/ NoAction
    \/ AIStart
    \/ AIEntity
    \/ MovementStart
    \/ MoveEntity
    \/ CombatStart
    \/ CombatEntity
    \/ EndTurn

GameNext ==
    \/ InputUpdate
    \/ NoAction
    \/ AIStart
    \/ AIEntity
    \/ MovementStart
    \/ MoveEntity
    \/ CombatStart
    \/ CombatEntity
    \/ EndTurn

\* ------------------------------------------------------- the specifications

Init == ECSInit /\ RegInit /\ GameIdle /\ BenchIdle

\* the Entity Manager and the store it owns
SpecEM == Init /\ [][EMNext]_vars

\* a Component Store on its own
SpecStore == Init /\ [][StoreNext]_vars

\* the System Registry
SpecRegistry == Init /\ [][RegNext]_vars

\* the game: the world GameLoop builds, then GameLoop.update over and over
SpecGame == GameInit /\ [][GameNext]_vars

\* the combat formulas
SpecFormulas == Init /\ [][FormulaNext]_vars

\* the path bench
SpecPaths == Init /\ [][PathNext]_vars

\* the scheduler bench
SpecScheduler == SchedulerInit /\ [][SchedulerNext]_vars

\* one combat update
SpecCombatUpdate == CombatUpdateInit /\ [][CombatUpdateNext]_vars

\* the combat bench
SpecCombat == BenchInit /\ [][BenchNext]_vars

\* the same turns played in the corridor
SpecCorridor == CorridorInit /\ [][GameNext]_vars

\* the same turns played in the hall
SpecHall == HallInit /\ [][GameNext]_vars

\* the turns played in the closet
SpecCloset == ClosetInit /\ [][ClosetNext]_vars

\* the closet with every mapped action among the inputs
SpecKeys == ClosetInit /\ [][KeysNext]_vars

\* the same turns played in the cell
SpecCell == CellInit /\ [][GameNext]_vars

\* ------------------------------------------------- Entity Manager: claims

\* what the Entity Manager reports about entity id
EMView(id) ==
    [exists |-> EM_entity_exists(TheEM, id),
     has    |-> [k \in Kinds |-> EM_has_component(TheEM, id, k)],
     get    |-> [k \in Kinds |-> EM_get_component(TheEM, id, k)],
     getAll |-> EM_get_all_components(TheEM, id),
     query  |-> [t \in KindLists |-> id \in EM_get_entities_with_components(TheEM, t)]]

\* entity id is fully absent: not live, no component, in no query result
Absent(id) ==
    /\ ~EM_entity_exists(TheEM, id)
    /\ \A k \in Kinds : ~EM_has_component(TheEM, id, k) /\ EM_get_component(TheEM, id, k) = None
    /\ \A k \in Kinds : ~CS_has_component(TheStore, id, k)
    /\ \A t \in KindLists : id \notin EM_get_entities_with_components(TheEM, t)

\* C1 (the claim as stated): cleanup_entities returns normally, and after it
\* every entity that destroy_entity had marked is fully absent and the
\* pending-deletion set is empty.
C1_CleanupRemovesMarked ==
    last.op = "cleanup_entities" =>
        /\ ~last.raised
        /\ entities_pending_deletion = {}
        /\ \A id \in last.marked : Absent(id)

\* C2: destroy_entity frees nothing: the step leaves the live set and every
\* answer of exists, has, get, get_all and query unchanged, and no step other
\* than cleanup_entities takes an entity out of the live set.
C2_DestroyIsDeferred ==
    [][ /\ last'.op = "destroy_entity" =>
              /\ entities' = entities
              /\ \A id \in IdArgs : EMView(id)' = EMView(id)
              /\ (last'.id \in entities => last'.id \in entities_pending_deletion')
        /\ last'.op # "cleanup_entities" => entities \subseteq entities'
      ]_vars

\* C2 witness: a live entity holding a component has just been marked
C2_Witness ==
    /\ last.op = "destroy_entity"
    /\ last.id \in entities
    /\ last.id \in entities_pending_deletion
    /\ \E k \in Kinds : EM_has_component(TheEM, last.id, k)

\* C3: the ids returned by create_entity are strictly increasing
C3_IdsStrictlyIncrease ==
    \A i, j \in DOMAIN created_ids : i < j => created_ids[i] < created_ids[j]

\* C3 witness: an id is handed out after an earlier entity was destroyed and
\* cleaned up
C3_Witness ==
    /\ last.op = "create_entity"
    /\ Len(created_ids) >= 2
    /\ \E i \in DOMAIN created_ids : created_ids[i] \notin entities

\* C4: for an id outside the live set add_component and remove_component leave
\* the store unchanged and do not raise, has_component is false, get_component
\* is None and get_all_components is empty.
C4_StaleIdIsNoOp ==
    /\ [][ (last'.op \in {"add_component", "remove_component"} /\ last'.id \notin entities) =>
              (~last'.raised /\ UNCHANGED <<component_stores, entity_components>>) ]_vars
    /\ [](\A id \in IdArgs \ entities :
              /\ \A k \in Kinds : ~EM_has_component(TheEM, id, k)
              /\ \A k \in Kinds : EM_get_component(TheEM, id, k) = None
              /\ EM_get_all_components(TheEM, id) = EmptyDict)

\* C4 witness: add_component was called with the id of an entity that was
\* destroyed and cleaned up, while another entity holds a component
C4_Witness ==
    /\ last.op = "add_component"
    /\ last.id \notin entities
    /\ \E i \in DOMAIN created_ids : created_ids[i] = last.id
    /\ component_stores # EmptyDict

\* ------------------------------------------------ Component Store: claims

\* C5 (the claim as stated): remove_all_components returns normally, leaves
\* the entity with no component of any kind and an empty get_all_components,
\* and leaves every other entity's components unchanged.
C5_RemoveAllReturns ==
    [][ last'.op = "cs_remove_all_components" =>
          /\ ~last'.raised
          /\ \A k \in Kinds : ~CS_has_component(TheStore', last'.id, k)
          /\ CS_get_all_components(TheStore', last'.id) = EmptyDict
          /\ \A e \in IdArgs \ {last'.id} :
                CS_get_all_components(TheStore', e) = CS_get_all_components(TheStore, e)
      ]_vars

\* C6: a query returns exactly the entities holding every listed kind; the
\* empty list, and a list naming a kind never inserted, return the empty set.
C6_QueryIsIntersection ==
    \A t \in KindLists :
        LET q == CS_get_entities_with_components(TheStore, t)
        IN  /\ t = <<>> => q = {}
            /\ t # <<>> =>
                  q = {e \in IdArgs : \A i \in DOMAIN t : CS_has_component(TheStore, e, t[i])}
            /\ (\E i \in DOMAIN t : t[i] \notin DOMAIN component_stores) => q = {}

\* C6 witness: after a remove_all_components, a two-kind query returns some
\* but not all of the entities a one-kind query returns
C6_Witness ==
    /\ last.op = "cs_remove_all_components"
    /\ CS_get_entities_with_components(TheStore, <<"Position", "Health">>) # {}
    /\ CS_get_entities_with_components(TheStore, <<"Position", "Health">>)
         # CS_get_entities_with_components(TheStore, <<"Position">>)

\* ------------------------------------------------- System Registry: claims

Ascending(seq) ==
    \A i, j \in DOMAIN seq : i < j => Priority(seq[i]) <= Priority(seq[j])

\* the systems of priority p in seq, in the order of seq
OfPriority(seq, p) ==
    LET Test(sys) == Priority(sys) = p
    IN  SelectSeq(seq, Test)

Priorities == {Priority(sys) : sys \in SystemNames}

C8_EveryAddRemoveResets ==
    /\ ~initialized
    /\ [][ /\ (~initialized /\ initialized') => last_reg'.op \in {"initialize", "update_all"}
           /\ last_reg'.op \in {"add_system", "remove_system"} => ~initialized'
           /\ last_reg'.op = "update_all" =>
                 /\ initialized'
                 /\ (~initialized => systems' = SortByPriority(systems))
                 /\ run_log' = systems'
         ]_vars

\* C8 (amended): as C8, but remove_system returns the registry to
\* uninitialized only when the system it names is registered; a remove_system
\* naming an unregistered system leaves the list and the flag unchanged.
C8_AddRemoveResets ==
    /\ ~initialized
    /\ [][ /\ (~initialized /\ initialized') => last_reg'.op \in {"initialize", "update_all"}
           /\ last_reg'.op = "add_system" => ~initialized'
           /\ (last_reg'.op = "remove_system" /\ InSeq(systems, last_reg'.system)) => ~initialized'
           /\ (last_reg'.op = "remove_system" /\ ~InSeq(systems, last_reg'.system)) =>
                 UNCHANGED <<systems, initialized>>
           /\ last_reg'.op = "update_all" =>
                 /\ initialized'
                 /\ (~initialized => systems' = SortByPriority(systems))
                 /\ run_log' = systems'
         ]_vars

\* C8 witness: after an update_all, a remove_system of a registered system
\* has returned the registry to uninitialized with an unsorted list left
C8_Witness ==
    /\ last_reg.op = "remove_system"
    /\ ~initialized
    /\ run_log # <<>>
    /\ Len(systems) < Len(run_log)
    /\ systems # <<>>

\* ------------------------------------------------------------ movement claims

\* the entities holding Position, and the tile each stands on
Positions ==
    IF "Position" \in DOMAIN component_stores THEN component_stores["Position"] ELSE EmptyDict

\* the tile try_move_entity(e, dx, dy) computes as its target
TargetTile(e, dx, dy) == <<Positions[e][1] + dx, Positions[e][2] + dy>>

\* the target of try_move_entity(e, dx, dy) is impassable
IntoWall(e, dx, dy) ==
    e \in DOMAIN Positions /\ TargetTile(e, dx, dy) \in impassable_positions

\* the target of try_move_entity(e, dx, dy) is recorded in the occupancy map as
\* held by another entity
IntoOther(e, dx, dy) ==
    /\ e \in DOMAIN Positions
    /\ TargetTile(e, dx, dy) \in DOMAIN occupancy_map
    /\ occupancy_map[TargetTile(e, dx, dy)] # e

\* C9: a try_move_entity call whose target tile is impassable, or is recorded
\* in the occupancy map as held by a different entity, returns False and
\* leaves every entity's Position and the occupancy map as they were.
C9_BlockedMoveIsRejected ==
    [][ (/\ move_call'.called
         /\ \/ IntoWall(move_call'.entity, move_call'.dx, move_call'.dy)
            \/ IntoOther(move_call'.entity, move_call'.dx, move_call'.dy))
        => (/\ ~move_call'.ok
            /\ Positions' = Positions
            /\ occupancy_map' = occupancy_map) ]_vars

\* a move was just rejected because another entity is recorded on the target
\* tile, which is not a wall
C9_Witness ==
    /\ move_call.called
    /\ ~move_call.ok
    /\ IntoOther(move_call.entity, move_call.dx, move_call.dy)
    /\ ~IntoWall(move_call.entity, move_call.dx, move_call.dy)

\* no two entities hold the same Position
NoOverlap ==
    \A a, b \in DOMAIN Positions : a # b => Positions[a] # Positions[b]

\* C10: if the entities holding Position start on distinct tiles, then after
\* any sequence of player actions and turns no two of them hold the same
\* Position.
C10_NoOverlapFromDistinctStart == started_distinct => NoOverlap

\* C11: with the walls configured before the first turn and every entity
\* placed off them, no entity's Position is ever a wall coordinate, whatever
\* the player's moves and the AI's chase and wander moves.
C11_NobodyStandsOnAWall ==
    \A e \in DOMAIN Positions : Positions[e] \notin impassable_positions

\* an enemy's wander move into a wall was just rejected
C11_Witness ==
    /\ move_call.called
    /\ ~move_call.ok
    /\ "PlayerTag" \in DOMAIN component_stores
    /\ move_call.entity \notin DOMAIN component_stores["PlayerTag"]
    /\ IntoWall(move_call.entity, move_call.dx, move_call.dy)

\* the tiles on which some entity holding Position stands
OccupiedTiles == {Positions[e] : e \in DOMAIN Positions}

\* C12: immediately after _rebuild_occupancy_map, the occupancy map has
\* exactly one entry for every tile on which an entity holding Position
\* stands, and as many entries as there are entities holding Position.
C12_RebuildIsExact ==
    [][ (phase = "ai_loop" /\ phase' = "movement_loop")
        => (/\ DOMAIN occupancy_map' = OccupiedTiles'
            /\ Cardinality(DOMAIN occupancy_map') = Cardinality(DOMAIN Positions')) ]_vars

\* -------------------------------------------------------------- combat claims

Exists(e) == e \in entities

Has(e, k) == Exists(e) /\ k \in DOMAIN component_stores /\ e \in DOMAIN component_stores[k]

HealthOf(e) == component_stores["Health"][e]

\* alive: holding a Health that is not dead
Alive(e) == Has(e, "Health") /\ ~HealthOf(e).is_dead

Adjacent(a, b) ==
    /\ Has(a, "Position")
    /\ Has(b, "Position")
    /\ AI_manhattan_distance(Positions[a], Positions[b]) = 1

\* C13: can_attack(attacker, defender) returns True if and only if both
\* entities exist, both are alive, both hold Position and their Manhattan
\* distance is exactly 1.
C13_CanAttackIffBothAlive ==
    bench_call.op = "can_attack" =>
        (bench_call.ret <=>
            /\ Exists(bench_call.args[1]) /\ Exists(bench_call.args[2])
            /\ Alive(bench_call.args[1]) /\ Alive(bench_call.args[2])
            /\ Adjacent(bench_call.args[1], bench_call.args[2]))

\* C13 (amended): can_attack(attacker, defender) returns True if and only if
\* both entities exist, the attacker holds CombatStats, the defender holds a
\* Health that is not dead, both hold Position and their Manhattan distance is
\* exactly 1; the attacker's own Health is not looked at.
C13_CanAttackIffDefenderAlive ==
    bench_call.op = "can_attack" =>
        (bench_call.ret <=>
            /\ Exists(bench_call.args[1]) /\ Exists(bench_call.args[2])
            /\ Has(bench_call.args[1], "CombatStats")
            /\ Alive(bench_call.args[2])
            /\ Adjacent(bench_call.args[1], bench_call.args[2]))

\* can_attack has just returned True for an attacker that is dead
C13_Witness ==
    /\ bench_call.op = "can_attack"
    /\ bench_call.ret
    /\ Has(bench_call.args[1], "Health")
    /\ HealthOf(bench_call.args[1]).is_dead

\* the last step was a perform_attack that hit e
HitOn(e) ==
    /\ bench_call.op = "perform_attack"
    /\ bench_call.args[2] = e
    /\ bench_call.ret

\* C14: over any sequence of perform_attack calls the death listener is
\* called at most once for an entity: on the hit that brings its
\* Health.current from above 0 to 0, and on no other call.
C14_DeathFiresOnce ==
    [][ \A e \in BenchIds :
          /\ death_count'[e] <= 1
          /\ (death_count'[e] # death_count[e]) <=>
                (/\ HitOn(e)'
                 /\ Has(e, "Health")
                 /\ HealthOf(e).current > 0
                 /\ HealthOf(e)'.current = 0) ]_vars

\* a defender already dead, for which the listener was called once, has just
\* been hit again and no death event was sent
C14_Witness ==
    \E e \in BenchIds :
        /\ HitOn(e)
        /\ death_count[e] = 1
        /\ HealthOf(e).is_dead
        /\ \A i \in DOMAIN events : events[i].kind # "death"

\* the entities holding Health
HealthHolders == {e \in entities : Has(e, "Health")}

\* C15: for every entity, 0 <= Health.current <= Health.max in every
\* reachable state, after any sequence of attacks and heals.
C15_HealthWithinBounds ==
    \A e \in HealthHolders : 0 <= HealthOf(e).current /\ HealthOf(e).current <= HealthOf(e).max

\* a heal of a damaged, living entity by more than it lacked has just left it
\* at max
C15_Witness ==
    /\ bench_call.op = "heal"
    /\ bench_call.ret < HealthOf(bench_call.args[1]).max
    /\ bench_call.ret + bench_call.args[2] > HealthOf(bench_call.args[1]).max
    /\ HealthOf(bench_call.args[1]).current = HealthOf(bench_call.args[1]).max

\* C16: is_dead becomes true exactly in the step in which Health.current
\* reaches 0, and from then on no take_damage or heal changes is_dead or
\* raises current above 0.
C16_DeathIsOneWay ==
    [][ \A e \in HealthHolders :
          /\ HealthOf(e).is_dead => (HealthOf(e)'.is_dead /\ HealthOf(e)'.current = 0)
          /\ ~HealthOf(e).is_dead => (HealthOf(e)'.is_dead <=> HealthOf(e)'.current = 0) ]_vars

\* a dead entity has just been healed and is still dead with current 0
C16_Witness ==
    /\ bench_call.op = "heal"
    /\ HealthOf(bench_call.args[1]).is_dead
    /\ HealthOf(bench_call.args[1]).current = 0

\* perform_attack(attacker, defender) lacks an entity or a component the
\* claim names
LacksRequired(attacker, defender) ==
    \/ ~Exists(attacker)
    \/ ~Exists(defender)
    \/ ~Has(attacker, "CombatStats")
    \/ ~Has(defender, "Health")

\* C17: perform_attack returns False and changes nothing whenever either
\* entity does not exist, the attacker lacks CombatStats or the defender lacks
\* Health: no component changes, no hit, miss or death listener is called and
\* the game state stays as it was.
C17_AttackWithoutComponentsIsNoOp ==
    [][ (/\ bench_call'.op = "perform_attack"
         /\ LacksRequired(bench_call'.args[1], bench_call'.args[2]))
        => (/\ ~bench_call'.ret
            /\ events' = <<>>
            /\ UNCHANGED <<component_stores, entity_components, entities, game_state,
                           death_count>>) ]_vars

\* perform_attack has just returned from an attack by an entity holding
\* CombatStats on an existing defender that holds no Health
C17_Witness ==
    /\ bench_call.op = "perform_attack"
    /\ Has(bench_call.args[1], "CombatStats")
    /\ Exists(bench_call.args[2])
    /\ ~Has(bench_call.args[2], "Health")
    /\ ~bench_call.ret

C19_DamageAtLeastOne ==
    bench_call.op = "damage" =>
        LET power   == bench_call.args[1]
            defense == bench_call.args[2]
            before  == bench_call.args[3]
            damage  == bench_call.ret.damage
            after   == bench_call.ret.health
            expect  == IF power - (defense \div 2) > 1 THEN power - (defense \div 2) ELSE 1
        IN  /\ damage = expect
            /\ damage >= 1
            /\ after.current < before.current
            /\ after.current = (IF before.current > damage THEN before.current - damage ELSE 0)

\* a damage has just been computed for a power below half the defense, and
\* applied
C19_Witness ==
    /\ bench_call.op = "damage"
    /\ bench_call.args[1] < bench_call.args[2] \div 2
    /\ bench_call.ret.damage = 1

\* the entities AISystem.update decides for: living, holding AIIntent,
\* Position and CombatStats
Deciders ==
    {e \in entities : /\ Has(e, "AIIntent") /\ Has(e, "Position")
                      /\ Has(e, "CombatStats") /\ Alive(e)}

ThePlayers == {e \in entities : Has(e, "PlayerTag") /\ Has(e, "Position")}

IntentOf(e) == component_stores["AIIntent"][e]

DistanceToPlayer(e, player_id) == AI_manhattan_distance(Positions[e], Positions[player_id])

\* AISystem.update has processed every AI entity and MovementSystem.update
\* has not begun
AIUpdateDone == phase = "ai_loop" /\ todo = {} /\ ThePlayers # {}

\* C20: after AISystem.update every living AI entity holding CombatStats has
\* the intent its Manhattan distance d to the player determines: ATTACK on
\* the player for d <= 1; MOVE one step closer for 1 < d <= detection_range,
\* the boundary included; MOVE to a tile at most one step away, or WAIT, for
\* d > detection_range.
C20_IntentFollowsDistance ==
    AIUpdateDone =>
        \A e \in Deciders, player_id \in ThePlayers :
            LET d == DistanceToPlayer(e, player_id)
                intent == IntentOf(e)
            IN  /\ d <= 1 =>
                    /\ intent.action_type = "ATTACK"
                    /\ intent.target_entity = player_id
                /\ (1 < d /\ d <= DetectionRange) =>
                    /\ intent.action_type = "MOVE"
                    /\ AI_manhattan_distance(intent.target_position, Positions[player_id]) = d - 1
                /\ d > DetectionRange =>
                    \/ intent.action_type = "WAIT"
                    \/ /\ intent.action_type = "MOVE"
                       /\ AI_manhattan_distance(intent.target_position, Positions[e]) <= 1

\* AISystem.update has just decided for an entity exactly detection_range
\* away from the player, and it chases
C20_Witness ==
    /\ AIUpdateDone
    /\ \E e \in Deciders, player_id \in ThePlayers :
         /\ DistanceToPlayer(e, player_id) = DetectionRange
         /\ IntentOf(e).action_type = "MOVE"

\* ------------------------------------------------- Turn Orchestrator: claims

Intents ==
    IF "AIIntent" \in DOMAIN component_stores THEN component_stores["AIIntent"] ELSE EmptyDict

Healths ==
    IF "Health" \in DOMAIN component_stores THEN component_stores["Health"] ELSE EmptyDict

TurnStates ==
    IF "TurnState" \in DOMAIN component_stores THEN component_stores["TurnState"] ELSE EmptyDict

\* C21: in every update in which a player action was taken the steps run in
\* the order player action, AI decisions, movement, combat, cleanup, turn
\* increment: the player acts only in the input step, intents are assigned
\* only in the AI update that follows it, positions of AI entities change
\* only in the movement update that follows the AI update, Health changes
\* only in the input step and in the combat update that follows the movement
\* update, and the counter advances only at the end of the combat update,
\* with the cleanup done and nothing left marked for deletion.
C21_StepsRunInOrder ==
    [][/\ (phase = "after_input" /\ action_taken) => phase' = "ai_loop"
       /\ (phase' = "ai_loop" /\ phase # "ai_loop") => phase = "after_input"
       /\ (phase' = "movement_loop" /\ phase # "movement_loop") =>
              (phase = "ai_loop" /\ todo = {})
       /\ (phase' = "combat_loop" /\ phase # "combat_loop") =>
              (phase = "movement_loop" /\ todo = {})
       /\ (\E e \in DOMAIN Intents :
              Intents'[e] # Intents[e] /\ Intents'[e].action_type # "NONE") =>
              phase = "ai_loop"
       /\ (\E e \in DOMAIN Intents : Positions'[e] # Positions[e]) =>
              phase = "movement_loop"
       /\ Healths' # Healths => phase \in {"input", "combat_loop"}
       /\ turn_number' # turn_number =>
              /\ phase = "combat_loop" /\ todo = {}
              /\ turn_number' = turn_number + 1
              /\ entities_pending_deletion' = {}
      ]_vars

\* a whole action turn has been played, in which the combat update resolved
\* an attack
C21_Witness ==
    /\ turn_number = 1
    /\ phase = "input"
    /\ \E e \in DOMAIN Intents : ~TurnStates[e].can_act

\* the steps that end an update
UpdateEnds == phase # "input" /\ phase' \in {"input", "stopped"}

\* C22: the turn counter starts at 0, never decreases, is unchanged by every
\* update in which no action was taken, and increases by exactly 1, at its
\* end, in every update in which an action was taken.
C22_TurnCounterCountsActionTurns ==
    /\ turn_number = 0
    /\ [][/\ turn_number' >= turn_number
          /\ (phase = "after_input" /\ ~action_taken) =>
                 (UpdateEnds /\ turn_number' = turn_number)
          /\ (phase = "after_input" /\ action_taken) =>
                 (phase' = "ai_loop" /\ turn_number' = turn_number)
          /\ phase \in {"input", "ai_loop", "movement_loop"} => turn_number' = turn_number
          /\ phase = "combat_loop" =>
                 IF phase' = "combat_loop"
                 THEN turn_number' = turn_number
                 ELSE UpdateEnds /\ turn_number' = turn_number + 1
         ]_vars

\* after one action turn, an update in which no action was taken is about to
\* end
C22_Witness ==
    /\ turn_number = 1
    /\ phase = "after_input"
    /\ ~action_taken

\* C23: once the game state is GAME_OVER, every later update skips turn
\* processing: from the start of an update in GAME_OVER, even when an input
\* action arrives, the AI, movement and combat updates, the cleanup and the
\* turn increment do not run, so the turn counter, every Position, every
\* Health and every intent stay unchanged.
C23_GameOverSkipsTurns ==
    [][(game_state = "GAME_OVER" /\ phase \in {"input", "after_input"}) =>
           /\ phase' \in {"input", "after_input", "stopped"}
           /\ turn_number' = turn_number
           /\ Positions' = Positions
           /\ Healths' = Healths
           /\ Intents' = Intents
      ]_vars

\* the entities holding PlayerTag
TaggedPlayers == {e \in entities : Has(e, "PlayerTag")}

\* C24: whenever the player's Health is not alive, and so at the end of
\* every update in which it is not, the game state is GAME_OVER; the state is
\* ACTIVE as long as the player has been alive since the start.
C24_GameOverIffPlayerDead ==
    \A p \in TaggedPlayers :
        /\ ~Alive(p) => game_state = "GAME_OVER"
        /\ Alive(p) => game_state = "ACTIVE"

\* an update has ended in which the player's Health went to 0
C24_Witness ==
    /\ phase = "input"
    /\ \E p \in TaggedPlayers : Has(p, "Health") /\ HealthOf(p).is_dead /\ HealthOf(p).current = 0
    /\ game_state = "GAME_OVER"

\* C25: GAME_OVER is terminal: no update, set_game_over, advance_turn or
\* attack takes the game state from GAME_OVER back to ACTIVE.
C25_GameOverIsTerminal ==
    [][game_state = "GAME_OVER" => game_state' = "GAME_OVER"]_vars

\* the scheduler has just been updated in GAME_OVER with the player alive
C25_Witness ==
    /\ bench_call.op = "update"
    /\ game_state = "GAME_OVER"
    /\ \E p \in TaggedPlayers : Alive(p)

\* ------------------------------------------------ the per-turn updates: claims

\* what CombatSystem.update tests before it attacks for e
ActsInCombat(e) ==
    /\ Has(e, "TurnState")
    /\ TurnStates[e].can_act
    /\ Intents[e].action_type = "ATTACK"
    /\ Intents[e].target_entity # NoEntity

\* C26: in one combat update every entity with AIIntent and Position is
\* visited once; one whose TurnState.can_act is true and whose intent is
\* ATTACK with a target performs exactly one attack, after which its intent
\* is NONE and its can_act is false; one whose can_act is false, or that has
\* no TurnState, performs no attack and is left as it was.
C26_OneAttackPerActingEntity ==
    [][/\ (phase = "movement_loop" /\ phase' = "combat_loop") =>
              todo' = {e \in entities : Has(e, "AIIntent") /\ Has(e, "Position")}
       /\ (phase = "combat_loop" /\ todo' # todo) =>
              \E e \in todo :
                  /\ todo' = todo \ {e}
                  /\ IF ActsInCombat(e)
                     THEN /\ Cardinality({i \in DOMAIN events' :
                                 events'[i].kind \in {"hit", "miss"}}) = 1
                          /\ \A i \in DOMAIN events' :
                                 /\ events'[i].kind \in {"hit", "miss"} => events'[i].attacker = e
                                 /\ events'[i].defender = Intents[e].target_entity
                          /\ Intents'[e] = NewIntent
                          /\ ~TurnStates'[e].can_act
                     ELSE /\ events' = <<>>
                          /\ component_stores' = component_stores
      ]_vars

\* the combat update has ended: one troll has attacked and can no longer
\* act, the other, without TurnState, still holds its ATTACK intent
C26_Witness ==
    /\ phase = "combat_loop"
    /\ todo = {}
    /\ \E a, b \in DOMAIN Intents :
         /\ Has(a, "TurnState") /\ ~TurnStates[a].can_act /\ Intents[a] = NewIntent
         /\ Healths[0].current < Healths[0].max
         /\ ~Has(b, "TurnState") /\ Intents[b].action_type = "ATTACK"

\* C27: can_act set to false by the combat update does not stay false: in
\* every turn in which the combat update visits a living AI entity holding an
\* ATTACK intent on the living player, first turn or later, that entity
\* attacks.
C27_AttacksInEveryTurn ==
    [][(phase = "combat_loop" /\ todo' # todo) =>
           \A e \in todo \ todo' :
               (/\ Alive(e)
                /\ Intents[e].action_type = "ATTACK"
                /\ Intents[e].target_entity \in TaggedPlayers
                /\ Alive(Intents[e].target_entity)) =>
                   \E i \in DOMAIN events' :
                       events'[i].kind \in {"hit", "miss"} /\ events'[i].attacker = e
      ]_vars

\* C28: the movement update visits every entity holding Position and
\* AIIntent once; for one whose intent is MOVE it calls try_move_entity
\* exactly once and clears the intent whether or not the move succeeded, the
\* others it leaves alone; when the update ends no intent is MOVE.
C28_MoveIntentsAreConsumed ==
    [][/\ (phase = "ai_loop" /\ phase' = "movement_loop") =>
              todo' = {e \in entities : Has(e, "Position") /\ Has(e, "AIIntent")}
       /\ (phase = "movement_loop" /\ phase' = "movement_loop" /\ todo' # todo) =>
              \E e \in todo :
                  /\ todo' = todo \ {e}
                  /\ IF Intents[e].action_type = "MOVE"
                     THEN /\ move_call'.called
                          /\ move_call'.entity = e
                          /\ Intents'[e] = NewIntent
                     ELSE /\ ~move_call'.called
                          /\ Intents'[e] = Intents[e]
                          /\ Positions' = Positions
       /\ (phase = "movement_loop" /\ todo = {}) =>
              \A e \in DOMAIN Intents : Intents[e].action_type # "MOVE"
      ]_vars

\* the movement update has just made a move that was rejected, and the
\* intent is cleared
C28_Witness ==
    /\ phase = "movement_loop"
    /\ move_call.called
    /\ ~move_call.ok
    /\ move_call.entity \in DOMAIN Intents
    /\ Intents[move_call.entity] = NewIntent

\* C29: an intent is a one-turn decision: outside the AI, movement and combat
\* updates, and so at the end of every action turn, no AI entity holds an
\* intent of type MOVE or ATTACK.
C29_NoIntentOutlivesItsTurn ==
    phase \in {"input", "after_input", "stopped"} =>
        \A e \in DOMAIN Intents : Intents[e].action_type \notin {"MOVE", "ATTACK"}

\* C30: AI-driven movement is never diagonal: every MOVE intent the AI
\* assigns, by chase or by wander, targets a tile at Manhattan distance 0 or
\* 1 from the entity, the movement update calls try_move_entity with a step
\* along at most one axis, and no Position changes by more than one tile.
C30_AIMovesAreNeverDiagonal ==
    [][/\ (phase = "ai_loop" /\ phase' = "ai_loop") =>
              \A e \in DOMAIN Intents' :
                  Intents'[e].action_type = "MOVE" =>
                      AI_manhattan_distance(Intents'[e].target_position, Positions[e]) <= 1
       /\ (phase = "movement_loop" /\ phase' = "movement_loop") =>
              /\ move_call'.called => Abs(move_call'.dx) + Abs(move_call'.dy) <= 1
              /\ \A e \in DOMAIN Positions :
                     AI_manhattan_distance(Positions'[e], Positions[e]) <= 1
      ]_vars

\* a chasing entity that was off the player's row and column has just moved
\* one tile along one axis
C30_Witness ==
    /\ phase = "movement_loop"
    /\ move_call.called
    /\ move_call.ok
    /\ Abs(move_call.dx) + Abs(move_call.dy) = 1
    /\ \E p \in ThePlayers :
         /\ Positions[move_call.entity][1] # Positions[p][1]
         /\ Positions[move_call.entity][2] # Positions[p][2]
         /\ DistanceToPlayer(move_call.entity, p) < DetectionRange

\* the AI entities whose Health is dead
DeadAI == {e \in DOMAIN Intents : Has(e, "Health") /\ HealthOf(e).is_dead}

\* C31: once an AI entity's Health is dead the AI update leaves its intent
\* as it is, and no later step changes its Position or makes an attack with
\* it as the attacker.
C31_DeadEntitiesStayPut ==
    [][\A e \in DeadAI :
           /\ phase = "ai_loop" => Intents'[e] = Intents[e]
           /\ Positions'[e] = Positions[e]
           /\ \A i \in DOMAIN events' : events'[i].attacker # e
      ]_vars

\* a whole turn has been played since the goblin died
C31_Witness ==
    /\ DeadAI # {}
    /\ phase = "input"
    /\ turn_number = MaxLongTurns - 1

\* ------------------------------------------------- Combat Resolver: claims

\* the calls to the listeners `names` of one kind, in their order
CallsOf(kind, names) == [i \in DOMAIN names |-> [kind |-> kind, listener |-> names[i]]]

\* C32: perform_attack between entities holding the required components is
\* a hit if and only if the drawn value is <= the hit chance; on a miss the
\* defender's Health is unchanged and the miss listeners alone are called;
\* on a hit Health.current drops by the computed damage, not below 0, and
\* the hit listeners are called in registration order, before the death
\* listeners, which are called when the hit killed.
C32_HitIffRollWithinChance ==
    bench_call.op = "perform_attack" =>
        LET attacker_stats == bench_call.args[1]
            defender_stats == bench_call.args[2]
            before    == bench_call.args[3]
            roll      == bench_call.args[4]
            listeners == bench_call.args[5]
            after     == bench_call.ret.health
            damage    == ST_calculate_damage(attacker_stats, defender_stats.defense)
            chance    == CB_calculate_hit_chance(attacker_stats.attack, defender_stats.defense)
        IN  /\ bench_call.ret.hit <=> roll <= chance
            /\ ~bench_call.ret.hit =>
                   /\ after = before
                   /\ bench_call.ret.calls = CallsOf("miss", listeners.miss)
            /\ bench_call.ret.hit =>
                   /\ after.current = Max(0, before.current - damage)
                   /\ bench_call.ret.calls =
                          CallsOf("hit", listeners.hit)
                              \o (IF after.current = 0 THEN CallsOf("death", listeners.death)
                                  ELSE <<>>)

\* an attack whose roll equals the hit chance has just hit and killed, with
\* two hit listeners and two death listeners registered
C32_Witness ==
    /\ bench_call.op = "perform_attack"
    /\ bench_call.args[4] =
           CB_calculate_hit_chance(bench_call.args[1].attack, bench_call.args[2].defense)
    /\ bench_call.ret.hit
    /\ Len(bench_call.ret.calls) = 4

\* the last _find_path call of the path bench
PathStart == bench_call.args[1]

PathGoal == bench_call.args[2]

PathReturned == bench_call.ret.path

\* p and q differ by one unit on one axis and not at all on the other
UnitOrthogonalStep(p, q) ==
    \/ Abs(p[1] - q[1]) = 1 /\ p[2] = q[2]
    \/ p[1] = q[1] /\ Abs(p[2] - q[2]) = 1

\* C33: the path _find_path returns starts at start; each consecutive pair
\* differs by exactly one unit on exactly one axis and each step brings the
\* Manhattan distance to goal down by 1; when the distance from start to goal
\* is at most max_steps the path ends at goal and has distance + 1 positions.
C33_PathIsUnitStepsTowardGoal ==
    bench_call.op = "find_path" =>
        /\ Len(PathReturned) >= 1
        /\ PathReturned[1] = PathStart
        /\ \A i \in 1..(Len(PathReturned) - 1) :
              /\ UnitOrthogonalStep(PathReturned[i], PathReturned[i + 1])
              /\ AI_manhattan_distance(PathReturned[i + 1], PathGoal)
                     = AI_manhattan_distance(PathReturned[i], PathGoal) - 1
        /\ AI_manhattan_distance(PathStart, PathGoal) <= MaxSteps =>
              /\ PathReturned[Len(PathReturned)] = PathGoal
              /\ Len(PathReturned) = AI_manhattan_distance(PathStart, PathGoal) + 1

\* a path was built between two tiles that differ on both axes, with the
\* vertical step taken in the middle
C33_Witness ==
    /\ bench_call.op = "find_path"
    /\ ~bench_call.ret.cached
    /\ PathReturned = <<<<0, 0>>, <<1, 0>>, <<1, 1>>, <<2, 1>>>>

\* C34 (the claim as stated): the path _find_path returns has at most
\* max_steps positions, the start included, for every start and goal.
C34_PathHasAtMostMaxStepsPositions ==
    bench_call.op = "find_path" => Len(PathReturned) <= MaxSteps

\* C34 (amended): the path has at most max_steps steps, that is at most
\* max_steps + 1 positions with the start, and exactly that many when the
\* goal is max_steps or more away.
C34_PathHasAtMostMaxStepsMoves ==
    bench_call.op = "find_path" =>
        /\ Len(PathReturned) <= MaxSteps + 1
        /\ AI_manhattan_distance(PathStart, PathGoal) >= MaxSteps =>
               Len(PathReturned) = MaxSteps + 1

\* a path toward a goal farther than max_steps away was built and stops short
\* of it, max_steps steps from the start
C34_Witness ==
    /\ bench_call.op = "find_path"
    /\ AI_manhattan_distance(PathStart, PathGoal) > MaxSteps
    /\ PathReturned[Len(PathReturned)] # PathGoal
    /\ AI_manhattan_distance(PathStart, PathReturned[Len(PathReturned)]) = MaxSteps

\* C35 (the claim as stated): at every step of the path where both axes still
\* differ from the goal, the step is taken on the axis whose remaining delta
\* is larger.
C35_StepReducesLargerDelta ==
    bench_call.op = "find_path" =>
        \A i \in 1..(Len(PathReturned) - 1) :
            LET dx == Abs(PathGoal[1] - PathReturned[i][1])
                dy == Abs(PathGoal[2] - PathReturned[i][2])
            IN  /\ (dx > dy /\ dy > 0) => PathReturned[i + 1][2] = PathReturned[i][2]
                /\ (dy > dx /\ dx > 0) => PathReturned[i + 1][1] = PathReturned[i][1]

\* C36: once _find_path has returned a path for a (start, goal) pair, the
\* cache keeps that pair and that path through every later call, and every
\* later call with the pair returns the cached path; the path a call returns
\* is the one the cache holds for its pair afterwards.
C36_CachedPathIsReturnedForever ==
    [][/\ \A key \in DOMAIN path_cache :
             /\ key \in DOMAIN path_cache'
             /\ path_cache'[key] = path_cache[key]
             /\ (bench_call'.op = "find_path" /\ bench_call'.args = key)
                    => bench_call'.ret.path = path_cache[key]
       /\ bench_call'.op = "find_path" =>
             /\ bench_call'.args \in DOMAIN path_cache'
             /\ path_cache'[bench_call'.args] = bench_call'.ret.path]_vars

\* a call for a pair with a coin in its path was answered from the cache
\* after the four other pairs of the bench had been asked for
C36_Witness ==
    /\ bench_call.op = "find_path"
    /\ bench_call.ret.cached
    /\ bench_call.args = <<<<0, 0>>, <<2, 1>>>>
    /\ DOMAIN path_cache = PathPairs

\* the first MovementSystem.update of the game has returned
FirstMovementUpdateDone == turn_number >= 1 \/ phase = "combat_loop"

\* the mapping Position(e) -> e over the entities holding Position, defined
\* when they stand on distinct tiles
PositionIndex ==
    [t \in OccupiedTiles |-> CHOOSE e \in DOMAIN Positions : Positions[e] = t]

\* C37: once the first movement update of the game has returned, whenever the
\* entities holding Position stand on distinct tiles the occupancy map is
\* exactly the mapping Position(e) -> e, after every AI move and before and
\* after every move of the player; at the start of the first turn, before the
\* player's first move and first attack scan, the map is empty.
C37_IndexExactAfterFirstMovementUpdate ==
    /\ (turn_number = 0 /\ phase = "input") => occupancy_map = EmptyDict
    /\ (FirstMovementUpdateDone /\ NoOverlap) => occupancy_map = PositionIndex

\* the entities whose Health is dead
DeadEntities == {e \in entities : Has(e, "Health") /\ HealthOf(e).is_dead}

\* the move try_move_entity was last called for targeted the tile of e
MoveTargeted(e) ==
    /\ move_call.called
    /\ move_call.entity # e
    /\ move_call.entity \in DOMAIN Positions
    /\ IF move_call.ok
       THEN Positions[move_call.entity] = Positions[e]
       ELSE TargetTile(move_call.entity, move_call.dx, move_call.dy) = Positions[e]

Received == bench_call.args[1]

StoredPairs ==
    {<<k, e>> \in Kinds \X IdArgs : k \in DOMAIN component_stores /\ e \in DOMAIN component_stores[k]}

\* the (type, entity) pairs of the per-entity type sets
TrackedPairs ==
    {<<k, e>> \in Kinds \X IdArgs : e \in DOMAIN entity_components /\ k \in entity_components[e]}

\* C40: after any sequence of add_component, remove_component and
\* remove_all_components calls, one that raised included, type k is in the
\* type set of entity e if and only if the dictionary of k has an entry for
\* e, no entity has an empty type set, and get_all_components gives one
\* component per type held; an add_component call sets the entity's entry of
\* one type, in place of the old one if there was one, and changes no other.
C40_StoreIndexesAgree ==
    /\ StoredPairs = TrackedPairs
    /\ [][/\ StoredPairs' = TrackedPairs'
          /\ \A e \in DOMAIN entity_components' :
                /\ entity_components'[e] # {}
                /\ entity_components'[e] \subseteq Kinds
                /\ DOMAIN CS_get_all_components(TheStore, e)' = entity_components'[e]
                /\ \A k \in entity_components'[e] : component_stores'[k][e] \in CompValues
          /\ last'.op = "cs_add_component" =>
                \E k \in Kinds, v \in CompValues :
                    /\ <<k, last'.id>> \in StoredPairs'
                    /\ component_stores'[k][last'.id] = v
                    /\ StoredPairs' = StoredPairs \cup {<<k, last'.id>>}
                    /\ \A p \in StoredPairs \ {<<k, last'.id>>} :
                          component_stores'[p[1]][p[2]] = component_stores[p[1]][p[2]]
      ]_vars

\* remove_all_components has just raised while another entity holds both
\* types
C40_Witness ==
    /\ last.op = "cs_remove_all_components"
    /\ last.raised
    /\ \E e \in DOMAIN entity_components : entity_components[e] = Kinds
====
